---- MODULE Spec2Model ----
(***************************************************************************)
(* A model of the HT-SOLS microscope control core                          *)
(* (src/ht_sols_microscope.py): the custody threads launched by            *)
(* Microscope.apply_settings and Microscope.acquire, the buffer counters,  *)
(* the settings attributes with their derived geometry and the memory      *)
(* check.                                                                   *)
(*                                                                          *)
(* Number representation (TLC has 32-bit integers and no floats):           *)
(*   lengths           picometres  (scan_range_um = 50  ->  50000000)       *)
(*   voxel_aspect_ratio thousandths (2 -> 2000)                             *)
(*   sample_ri         hundredths  (1.33 -> 133)                            *)
(*   zoom_lens_f_mm    tenths      (150 mm -> 1500)                         *)
(*   memory sizes      16-bit words, i.e. bytes / 2.  Every comparison of   *)
(*                     the code is between two byte counts, so halving both *)
(*                     sides decides it the same way (2**31 bytes = 2**30). *)
(***************************************************************************)
EXTENDS Integers, Sequences, FiniteSets, TLC

(***************************************************************************)
(* Bounds of the model                                                      *)
(***************************************************************************)
\* number of apply_settings / acquire calls the caller thread makes
MaxTasks == 3
\* number of calls the caller makes in the buffer-pool scenario (SpecBuffers)
MaxBufferTasks == 4
\* number of calls the caller makes in the pipeline scenario (FairPipeline)
MaxPipelineTasks == 4
\* Microscope(max_allocated_bytes=...): 1e9 bytes, in 16-bit words
max_allocated_bytes == 500000000
\* number of calls the caller makes in the scan scenario (SpecScan)
MaxScanTasks == 4
\* largest stack given to DataNative.get and DataRoi.get (SpecViews):
\* slices, rows and columns of its one volume and channel
MaxStackSlices == 3
MaxStackHeight == 3
MaxStackWidth == 2
\* largest camera_preframes, volumes_per_buffer and slices_per_volume given
\* to _calculate_voltages (SpecVoltages)
MaxPreframes == 2
MaxVolumes == 2
MaxSlices == 2

Tasks ==
    1..(CHOOSE m \in {MaxTasks, MaxBufferTasks, MaxPipelineTasks,
                       MaxScanTasks} :
            \A x \in {MaxTasks, MaxBufferTasks, MaxPipelineTasks,
                       MaxScanTasks} : m >= x)
Resources == {"camera", "datapreview", "display"}

(***************************************************************************)
(* Optical configuration, lines 36-38                                       *)
(***************************************************************************)
\* tan(tilt), tilt = 55 degrees, in millionths
TAN_TILT_E6 == 1428148
\* cos(tilt) in millionths
COS_TILT_E6 == 573576
\* sin(tilt) in millionths
SIN_TILT_E6 == 819152
\* 1 / cos(tilt) in thousandths
INV_COS_TILT_E3 == 1743
\* cos(tilt)^2 in hundred-thousandths
COS2_TILT_E5 == 32899
\* camera_px_um / (M1 * Mscan * (5 / f_mm) * M3) = 117 pm per 0.1 mm of f_mm
PM_PER_F10 == 117

\* python round() / numpy rint(): nearest integer, ties to even (a, b > 0);
\* x and y are the values of a and b
Round(a, b) ==
    CHOOSE n \in {IF 2 * (x % y) < y THEN x \div y
                  ELSE IF 2 * (x % y) > y THEN (x \div y) + 1
                  ELSE IF (x \div y) % 2 = 0 THEN x \div y
                  ELSE (x \div y) + 1 : x \in {a}, y \in {b}} : TRUE

Max(a, b) == CHOOSE m \in {IF x >= y THEN x ELSE y : x \in {a}, y \in {b}} : TRUE
Min(a, b) == CHOOSE m \in {IF x <= y THEN x ELSE y : x \in {a}, y \in {b}} : TRUE

\* sin(phi) / sin(pi - phi - tilt) in hundredths, for the angles the model uses
ShearRatioE2(angle_deg) ==
    CASE angle_deg = 0 -> 0
      [] angle_deg = 35 -> 57
      [] angle_deg = 90 -> 174
      [] OTHER -> 0

\* sin(tilt + phi) in millionths, for the angles the model uses
SinTiltPlusE6(angle_deg) ==
    CASE angle_deg = 0 -> SIN_TILT_E6
      [] angle_deg = 35 -> 1000000
      [] angle_deg = 90 -> COS_TILT_E6
      [] OTHER -> SIN_TILT_E6

(***************************************************************************)
(* HT SOLS definitions, lines 914-931                                       *)
(***************************************************************************)
calculate_scan_step_size_um(sample_px_um, scan_step_size_px) ==
    Round(scan_step_size_px * sample_px_um * INV_COS_TILT_E3, 1000)

calculate_scan_range_um_Fencepost(sample_px_um, scan_step_size_px, slices_per_volume) ==
    calculate_scan_step_size_um(sample_px_um, scan_step_size_px)
        * slices_per_volume

calculate_scan_range_um(sample_px_um, scan_step_size_px, slices_per_volume) ==
    calculate_scan_step_size_um(sample_px_um, scan_step_size_px)
        * (slices_per_volume - 1)

\* in thousandths
calculate_voxel_aspect_ratio(scan_step_size_px) ==
    Round(scan_step_size_px * TAN_TILT_E6, 1000)

calculate_cuboid_voxel_scan(sample_px_um, voxel_aspect_ratio, scan_range_um) ==
    LET scan_step_size_px ==
            Max(Round(voxel_aspect_ratio * 1000, TAN_TILT_E6), 1)
        scan_step_size_um ==
            calculate_scan_step_size_um(sample_px_um, scan_step_size_px)
        slices_per_volume == 1 + Round(scan_range_um, scan_step_size_um)
    IN  <<scan_step_size_px, slices_per_volume>>

(***************************************************************************)
(* pco_edge42_cl.legalize_image_size, as called on lines 591-593 and        *)
(* 598-600: the camera library is not part of the repository.  It returns   *)
(* a nearby size the chip accepts; here the height is clipped to the chip   *)
(* and made even, the width is clipped, and the roi is the centred box.     *)
(***************************************************************************)
legalize_image_size(h_px, w_px) ==
    LET h == Min(Max(h_px - (h_px % 2), 10), 2048)
        w == Min(Max(w_px, 64), 2060)
    IN  <<h, w, <<h, w>> >>

(***************************************************************************)
(* DataPreview.shape, lines 938-976                                         *)
(***************************************************************************)
DataPreview_shape(projection_mode, projection_angle_deg, volumes_per_buffer, slices_per_volume, num_channels_per_slice, height_px, width_px, sample_px_um, scan_step_size_px, preview_line_px, preview_crop_px, timestamp_mode) ==
    LET \* scan_step_size_um / (sample_px_um * cos(tilt)): sample_px_um
        \* cancels, leaving scan_step_size_px / cos(tilt)^2
        prop_px_shear_max ==
            Round(scan_step_size_px * (slices_per_volume - 1) * 100000,
                  COS2_TILT_E5)
        b_px == preview_crop_px
        t_px == IF timestamp_mode = "binary+ASCII" THEN 8 ELSE preview_crop_px
        h_px == height_px - t_px - b_px
        x_px == width_px
    IN  IF projection_mode
        THEN <<volumes_per_buffer, num_channels_per_slice,
               Round(h_px * (SinTiltPlusE6(projection_angle_deg) \div 1000),
                     1000),
               x_px>>
        ELSE LET y_px == Round((h_px + prop_px_shear_max)
                                   * (COS_TILT_E6 \div 1000), 1000)
                 z_px == Round(h_px * (SIN_TILT_E6 \div 1000), 1000)
             IN  <<volumes_per_buffer, num_channels_per_slice,
                   y_px + z_px + 2 * preview_line_px,
                   x_px + z_px + 2 * preview_line_px>>

Prod4(shape) == shape[1] * shape[2] * shape[3] * shape[4]

(***************************************************************************)
(* apply_settings arguments, lines 506-533.  A call is a function from the  *)
(* names of the arguments that are not None to their values; an attribute   *)
(* record is a function from the names of the attributes that exist         *)
(* (hasattr) to their values.                                               *)
(***************************************************************************)
ArgOrder ==
    << "projection_mode", "projection_angle_deg", "channels_per_slice",
       "power_per_channel", "emission_filter", "illumination_time_us",
       "height_px", "width_px", "timestamp_mode", "voxel_aspect_ratio",
       "scan_range_um", "volumes_per_buffer", "autofocus_enabled",
       "focus_piezo_z_um", "XY_stage_position_mm", "sample_ri",
       "ls_focus_adjust_v", "ls_angular_dither_v", "camera_preframes",
       "max_bytes_per_buffer", "max_data_buffers", "max_preview_buffers",
       "preview_line_px", "preview_crop_px" >>

illumination_sources == {"LED", "405", "488", "561", "640",
                         "405_on_during_rolling"}

emission_filter_options == {"Shutter", "Open", "ET445/58M", "ET525/50M",
                            "ET600/50M", "ET706/95M", "ZET405/488/561/640m",
                            "(unused)"}

Given(args, k) == k \in DOMAIN args

\* setattr(self, k, v)
SetAttr(s, k, v) ==
    [x \in DOMAIN s \cup {k} |-> IF x = k THEN v ELSE s[x]]

\* the mandatory call of lines 1332-1350
FullCall ==
    [ projection_mode |-> FALSE,
      projection_angle_deg |-> 0,
      channels_per_slice |-> <<"LED", "488">>,
      power_per_channel |-> <<50, 10>>,
      emission_filter |-> "ET525/50M",
      illumination_time_us |-> 100,
      height_px |-> 248,
      width_px |-> 1060,
      voxel_aspect_ratio |-> 2000,
      scan_range_um |-> 50000000,
      volumes_per_buffer |-> 1,
      focus_piezo_z_um |-> <<0, "relative">>,
      XY_stage_position_mm |-> <<0, 0, "relative">>,
      sample_ri |-> 133,
      ls_focus_adjust_v |-> 0,
      ls_angular_dither_v |-> 0 ]

\* one channel instead of two, as in the acquisition template, lines 69-72
OneChannelCall ==
    [ channels_per_slice |-> <<"488">>, power_per_channel |-> <<5>> ]

PreframesCall == [ camera_preframes |-> 2 ]

FewBuffersCall == [ max_data_buffers |-> 1, max_preview_buffers |-> 1 ]

\* twice the volumes: more than max_allocated_bytes allows
TwoVolumesCall == [ volumes_per_buffer |-> 2 ]

\* a refractive index outside [1.33, 1.51]
BadRiCall == [ sample_ri |-> 160 ]

\* the mandatory call with one buffer of each kind
FullFewBuffersCall ==
    [x \in DOMAIN FullCall \cup DOMAIN FewBuffersCall |->
        IF x \in DOMAIN FullCall THEN FullCall[x] ELSE FewBuffersCall[x]]

\* more buffers of each kind from now on
MoreBuffersCall == [ max_data_buffers |-> 2, max_preview_buffers |-> 2 ]

\* one channel and one buffer of each kind from now on
OneChannelOneBufferCall ==
    [ channels_per_slice |-> <<"488">>, power_per_channel |-> <<5>>,
      max_data_buffers |-> 1, max_preview_buffers |-> 1 ]

SettingsCalls ==
    { "Full", "OneChannel", "Preframes", "FewBuffers", "TwoVolumes", "BadRi",
      "FullFewBuffers" }

\* the arguments of the call named c
Args(c) ==
    CASE c = "Full" -> FullCall
      [] c = "OneChannel" -> OneChannelCall
      [] c = "Preframes" -> PreframesCall
      [] c = "FewBuffers" -> FewBuffersCall
      [] c = "TwoVolumes" -> TwoVolumesCall
      [] c = "OneChannelOneBuffer" -> OneChannelOneBufferCall
      [] c = "FullFewBuffers" -> FullFewBuffersCall
      [] c = "MoreBuffers" -> MoreBuffersCall
      \* a narrower image: the geometry block runs again on the stored scan
      [] c = "Width" -> [width_px |-> 1000]
      \* another legal refractive index: another sample_px_um
      [] c = "Ri" -> [sample_ri |-> 140]
      \* projection mode, asked with a voxel aspect ratio of 4
      [] c = "Projection" ->
             [projection_mode |-> TRUE, projection_angle_deg |-> 35,
              voxel_aspect_ratio |-> 4000]
      \* a voxel aspect ratio of 4: a scan step of 3 pixels
      [] c = "Coarse" -> [voxel_aspect_ratio |-> 4000]
      \* scan ranges outside [0, 500] um
      [] c = "NegativeRange" -> [scan_range_um |-> -100000000]
      [] c = "LongRange" -> [scan_range_um |-> 600000000]
      \* apply_settings(): every argument None
      [] c = "NoArgs" -> [x \in {} |-> 0]
      \* the autofocus switched on and off, a move of the focus piezo and
      \* the request (0, 'relative')
      [] c = "AutofocusOn" -> [autofocus_enabled |-> TRUE]
      [] c = "AutofocusOff" -> [autofocus_enabled |-> FALSE]
      [] c = "Move" -> [focus_piezo_z_um |-> <<10, "relative">>]
      [] c = "NoMove" -> [focus_piezo_z_um |-> <<0, "relative">>]
      \* the mandatory call with a voxel aspect ratio of 4, and the
      \* projection mode checkbox of the GUI (gui lines 2603-2606)
      [] c = "FullCoarse" ->
             [FullFewBuffersCall EXCEPT !.voxel_aspect_ratio = 4000]
      [] c = "ProjectionOn" -> [projection_mode |-> TRUE]
      [] c = "ProjectionOff" -> [projection_mode |-> FALSE]
      [] OTHER -> BadRiCall

(***************************************************************************)
(* settings_task, lines 539-543: the setattr loop.  Stops at the first      *)
(* argument that is None and was never set; what was set before stays set.  *)
(***************************************************************************)
SetAttrsFrom(s, args, i) ==
    LET \* the arguments that are None and were never set
        unset == {j \in i..Len(ArgOrder) :
                     ArgOrder[j] \notin DOMAIN s \cup DOMAIN args}
        stop == IF unset = {} THEN Len(ArgOrder) + 1
                ELSE CHOOSE j \in unset : \A x \in unset : j <= x
        set == {ArgOrder[j] : j \in i..(stop - 1)} \cap DOMAIN args
    IN  [s |-> [x \in DOMAIN s \cup set |->
                   IF x \in set THEN args[x] ELSE s[x]],
         ok |-> unset = {}]

GeometryArgs ==
    {"projection_mode", "projection_angle_deg", "height_px", "width_px",
     "voxel_aspect_ratio", "scan_range_um", "sample_ri"}

\* adds or overwrites the attributes of r in s; a and b are the values of
\* s and r
Update(s, r) ==
    CHOOSE f \in {[x \in DOMAIN a \cup DOMAIN b |->
                      IF x \in DOMAIN b THEN b[x] ELSE a[x]] :
                      a \in {s}, b \in {r}} : TRUE

\* line 579 left out
ScanRangeLegal_NoLimit(scan_range_um) == TRUE

\* line 579: assert 0 <= self.scan_range_um <= 500 # optical limit
ScanRangeLegal(scan_range_um) ==
    0 <= scan_range_um /\ scan_range_um <= 500000000

(***************************************************************************)
(* settings_task, lines 544-600: the derived geometry.  Each assert that    *)
(* fails ends the block with the attributes written so far.                 *)
(***************************************************************************)
Geometry(s, args) ==
    IF DOMAIN args \cap GeometryArgs = {} THEN [s |-> s, ok |-> TRUE]
    ELSE IF ~(133 <= s.sample_ri /\ s.sample_ri <= 151)
    THEN [s |-> s, ok |-> FALSE]
    ELSE
    LET f_mm == Min(Round(200000, s.sample_ri), 1500)
        sample_px_um == PM_PER_F10 * f_mm
        s1 == Update(s, [zoom_lens_f_mm |-> f_mm,
                         sample_px_um |-> sample_px_um])
    IN  IF ~(s1.projection_mode \in BOOLEAN)
           \/ ~(0 <= s1.projection_angle_deg /\ s1.projection_angle_deg <= 90)
        THEN [s |-> s1, ok |-> FALSE]
        ELSE
        LET var == IF s1.projection_mode THEN 0 ELSE s1.voxel_aspect_ratio
            scan == calculate_cuboid_voxel_scan(
                        sample_px_um, var, s1.scan_range_um)
            scan_range_um ==
                calculate_scan_range_um(sample_px_um, scan[1], scan[2])
            s2 == Update(s1,
                    [scan_step_size_px |-> scan[1],
                     slices_per_volume |-> scan[2],
                     scan_step_size_um |->
                         calculate_scan_step_size_um(sample_px_um, scan[1]),
                     voxel_aspect_ratio |->
                         calculate_voxel_aspect_ratio(scan[1]),
                     scan_range_um |-> scan_range_um])
        IN  IF ~ScanRangeLegal(scan_range_um)
            THEN [s |-> s2, ok |-> FALSE]
            ELSE
            LET \* total_scan_px * sin(phi) / sin(gam)
                galvo_shear_px ==
                    Round((scan_range_um \div (sample_px_um \div 1000))
                              * ShearRatioE2(s2.projection_angle_deg),
                          100000)
                legal == legalize_image_size(s2.height_px, s2.width_px)
                h_px == Min(legal[1] + galvo_shear_px, 2048)
                plegal == legalize_image_size(h_px, s2.width_px)
                s3 == Update(s2,
                        [galvo_shear_px |-> galvo_shear_px,
                         height_px |-> legal[1],
                         width_px |-> legal[2],
                         roi_px |-> legal[3],
                         projection_height_px |-> 0])
            IN  IF s3.projection_mode
                THEN [s |-> Update(s3, [projection_height_px |-> plegal[1],
                                        width_px |-> plegal[2],
                                        roi_px |-> plegal[3]]),
                      ok |-> TRUE]
                ELSE [s |-> s3, ok |-> TRUE]

(***************************************************************************)
(* Microscope._check_memory, lines 258-311                                  *)
(***************************************************************************)
check_memory(s) ==
    LET slices == IF s.projection_mode THEN 1 ELSE s.slices_per_volume
        h_px == IF s.projection_mode THEN s.projection_height_px
                ELSE s.height_px
        images == s.volumes_per_buffer * Len(s.channels_per_slice) * slices
        bytes_per_data_buffer == images * h_px * s.width_px
        preview_shape ==
            DataPreview_shape(
                s.projection_mode, s.projection_angle_deg,
                s.volumes_per_buffer, s.slices_per_volume,
                Len(s.channels_per_slice), h_px, s.width_px, s.sample_px_um,
                s.scan_step_size_px, s.preview_line_px, s.preview_crop_px,
                s.timestamp_mode)
        bytes_per_preview_buffer == Prod4(preview_shape)
        total_bytes == bytes_per_data_buffer * s.max_data_buffers
                       + bytes_per_preview_buffer * s.max_preview_buffers
    IN  Update(s,
          [images |-> images,
           bytes_per_data_buffer |-> bytes_per_data_buffer,
           data_buffer_exceeded |->
               bytes_per_data_buffer > s.max_bytes_per_buffer,
           preview_shape |-> preview_shape,
           bytes_per_preview_buffer |-> bytes_per_preview_buffer,
           preview_buffer_exceeded |->
               bytes_per_preview_buffer > s.max_bytes_per_buffer,
           total_bytes |-> total_bytes,
           total_bytes_exceeded |-> total_bytes > max_allocated_bytes])

\* lines 602-604 without the total: a plausible slip
MemoryExceeded_NoTotal(s) ==
    s.data_buffer_exceeded \/ s.preview_buffer_exceeded

\* lines 602-604
MemoryExceeded(s) ==
    s.data_buffer_exceeded \/ s.preview_buffer_exceeded
        \/ s.total_bytes_exceeded

(***************************************************************************)
(* settings_task, lines 607-704: the hardware commands, slowest to          *)
(* fastest.  hw is the set of device commands issued; a failed assert or    *)
(* raise ends the task with the commands issued so far.  sample_flag is     *)
(* what autofocus.get_sample_flag() answers.                                *)
(***************************************************************************)
CameraArgs ==
    {"projection_mode", "projection_angle_deg", "height_px", "width_px",
     "illumination_time_us", "scan_range_um", "sample_ri"}

VoltageArgs ==
    {"projection_mode", "projection_angle_deg", "channels_per_slice",
     "power_per_channel", "height_px", "illumination_time_us",
     "voxel_aspect_ratio", "scan_range_um", "volumes_per_buffer",
     "sample_ri", "ls_focus_adjust_v", "ls_angular_dither_v",
     "camera_preframes"}

\* lines 688-697
VoltageSettingsLegal(s) ==
    /\ \A i \in 1..Len(s.channels_per_slice) :
           s.channels_per_slice[i] \in illumination_sources
    /\ Len(s.power_per_channel) = Len(s.channels_per_slice)
    /\ \A i \in 1..Len(s.power_per_channel) :
           0 <= s.power_per_channel[i] /\ s.power_per_channel[i] <= 100
    /\ s.volumes_per_buffer > 0
    /\ -100 <= s.ls_focus_adjust_v /\ s.ls_focus_adjust_v <= 100
    /\ 0 <= s.ls_angular_dither_v /\ s.ls_angular_dither_v <= 1000

\* lines 608-617
HwXY(args) ==
    IF Given(args, "XY_stage_position_mm")
    THEN IF args.XY_stage_position_mm[3] \in {"relative", "absolute"}
         THEN [hw |-> {"XY_stage.move_mm"}, ok |-> TRUE]
         ELSE [hw |-> {}, ok |-> FALSE]
    ELSE [hw |-> {"XY_stage.get_position_mm"}, ok |-> TRUE]

\* lines 618-624
HwZoomFilter(args) ==
    LET zoom == IF Given(args, "sample_ri")
                THEN {"zoom_lens.set_focal_length_mm"} ELSE {}
    IN  IF Given(args, "emission_filter")
        THEN IF args.emission_filter \in emission_filter_options
             THEN [hw |-> zoom \cup {"filter_wheel.move"}, ok |-> TRUE]
             ELSE [hw |-> zoom, ok |-> FALSE]
        ELSE [hw |-> zoom, ok |-> TRUE]

\* lines 625-647
HwAutofocus(s, args, sample_flag) ==
    IF ~Given(args, "autofocus_enabled") THEN [s |-> s, hw |-> {}, ok |-> TRUE]
    ELSE IF ~(args.autofocus_enabled \in BOOLEAN)
    THEN [s |-> s, hw |-> {}, ok |-> FALSE]
    ELSE IF args.autofocus_enabled
    THEN IF sample_flag
         THEN [s |-> s,
               hw |-> {"autofocus.get_sample_flag",
                       "autofocus.set_servo_enable",
                       "autofocus.set_piezo_voltage",
                       "focus_piezo.set_analog_control_enable"},
               ok |-> TRUE]
         ELSE [s |-> Update(s, [autofocus_enabled |-> FALSE]),
               hw |-> {"autofocus.get_sample_flag"}, ok |-> TRUE]
    ELSE [s |-> Update(s, [focus_piezo_z_um |-> <<0, "absolute">>]),
          hw |-> {"focus_piezo.set_analog_control_enable",
                  "autofocus.set_servo_enable"},
          ok |-> TRUE]

\* lines 648-659 without the test of line 649
HwFocusPiezo_NoGuard(s, args) ==
    IF ~Given(args, "focus_piezo_z_um") THEN [hw |-> {}, ok |-> TRUE]
    ELSE IF args.focus_piezo_z_um[2] \in {"relative", "absolute"}
    THEN [hw |-> {"focus_piezo.move_um"}, ok |-> TRUE]
    ELSE [hw |-> {}, ok |-> FALSE]

\* lines 648-659
HwFocusPiezo(s, args) ==
    IF ~Given(args, "focus_piezo_z_um") THEN [hw |-> {}, ok |-> TRUE]
    ELSE IF ~s.autofocus_enabled
    THEN IF args.focus_piezo_z_um[2] \in {"relative", "absolute"}
         THEN [hw |-> {"focus_piezo.move_um"}, ok |-> TRUE]
         ELSE [hw |-> {}, ok |-> FALSE]
    ELSE [hw |-> {}, ok |-> args.focus_piezo_z_um = <<0, "relative">>]

\* lines 660-673
HwCamera(args) ==
    (IF DOMAIN args \cap CameraArgs # {}
     THEN {"camera._disarm", "camera._set_roi",
           "camera._set_exposure_time_us", "camera._arm"}
     ELSE {})
    \cup
    (IF Given(args, "timestamp_mode")
     THEN {"camera._set_timestamp_mode"} ELSE {})

(***************************************************************************)
(* Microscope._calculate_voltages, lines 313-373.  The matrix is a sequence *)
(* of rows, row r being sample r - 1; a row maps each channel number of the *)
(* card to microvolts.  tm is what the devices answer for the timing:       *)
(* exposure_px = ao.s2p(1e-6 * camera.exposure_us), rolling_px =            *)
(* ao.s2p(1e-6 * camera.rolling_time_us) and s2p_30us = ao.s2p(30e-6).      *)
(***************************************************************************)
\* lines 230-251
names_to_voltage_channels ==
    ("405_TTL" :> 0) @@ ("405_power" :> 1) @@ ("488_TTL" :> 4)
    @@ ("488_power" :> 5) @@ ("561_TTL" :> 6) @@ ("561_power" :> 7)
    @@ ("640_TTL" :> 8) @@ ("640_power" :> 9) @@ ("LED_power" :> 10)
    @@ ("camera" :> 11) @@ ("galvo" :> 12) @@ ("LSx_BFP" :> 16)
    @@ ("LSy_BFP" :> 17) @@ ("LSx_IMG" :> 18) @@ ("LSy_IMG" :> 19)
    @@ ("shear" :> 20)

\* line 254: ni_PCIe_6738.DAQ(num_channels=21, ...)
num_channels == 21

\* line 318
jitter_px_NoFloor(tm) == tm.s2p_30us

jitter_px(tm) == Max(tm.s2p_30us, 1)

\* line 319
period_px(tm) == Max(tm.exposure_px, tm.rolling_px) + jitter_px(tm)

\* lines 332, 342: np.zeros((period_px, self.ao.num_channels))
Zeros(period) == [i \in 1..period |-> [c \in 0..(num_channels - 1) |-> 0]]

\* v[lo:hi, ch] = x
SetConst(v, lo, hi, ch, x) ==
    [i \in 1..Len(v) |->
        IF lo < i /\ i <= hi THEN [v[i] EXCEPT ![ch] = x] ELSE v[i]]

\* np.linspace(-a, a, n)[i]
linspace(a, n, i) == IF n = 1 THEN -a ELSE (2 * a * i) \div (n - 1) - a

\* v[lo:hi, ch] = np.linspace(-a, a, hi - lo)
SetRamp(v, lo, hi, ch, a) ==
    [i \in 1..Len(v) |->
        IF lo < i /\ i <= hi
        THEN [v[i] EXCEPT ![ch] = linspace(a, hi - lo, i - 1 - lo)]
        ELSE v[i]]

\* lines 321-322, in microvolts
galvo_scan_volts(s) ==
    (s.scan_range_um \div 1000000) * 11395
    + Round(((s.scan_range_um % 1000000) \div 1000) * 11395, 1000)

\* lines 326-327, in microvolts
galvo_shear_volts(s) == Round(21097 * s.galvo_shear_px, 10)

\* lines 333, 343: v[:rolling_px, n2c['camera']] = 5
CameraTrigger_WholeBlock(v, tm) ==
    SetConst(v, 0, Len(v), names_to_voltage_channels["camera"], 5000000)

CameraTrigger(v, tm) ==
    SetConst(v, 0, tm.rolling_px, names_to_voltage_channels["camera"],
             5000000)

\* lines 332-333: one preframe block
Preframe(tm) == CameraTrigger(Zeros(period_px(tm)), tm)

\* lines 344-345
light_on_px_Zero(tm, channel) == 0

light_on_px(tm, channel) ==
    IF channel \in {"405_on_during_rolling"} THEN 0 ELSE tm.rolling_px

\* lines 346-350: the keys the block of a channel looks up
ChannelKeys(channel) ==
    (IF channel # "LED" THEN {channel \o "_TTL"} ELSE {})
    \cup {channel \o "_power"}

\* lines 342-367: the block of one slice and channel
Frame(s, tm, _slice, channel, power) ==
    LET n2c == names_to_voltage_channels
        on == light_on_px(tm, channel)
        off == period_px(tm) - jitter_px(tm)
        v1 == CameraTrigger(Zeros(period_px(tm)), tm)
        v2 == IF channel # "LED"
              THEN SetConst(v1, on, off, n2c[channel \o "_TTL"], 10000000)
              ELSE v1
        v3 == SetConst(v2, on, off, n2c[channel \o "_power"], 45000 * power)
        v4 == SetConst(v3, 0, Len(v3), n2c["LSx_BFP"],
                       1000 * s.ls_focus_adjust_v)
    IN  IF s.projection_mode
        THEN SetRamp(SetRamp(v4, on, off, n2c["galvo"],
                             galvo_scan_volts(s) \div 2),
                     on, off, n2c["shear"], galvo_shear_volts(s) \div 2)
        ELSE SetRamp(SetConst(v4, 0, Len(v4), n2c["galvo"],
                              linspace(galvo_scan_volts(s) \div 2,
                                       s.slices_per_volume, _slice)),
                     on, off, n2c["LSx_IMG"], 1000 * s.ls_angular_dither_v)

\* lines 337-338
Slices(s) == IF s.projection_mode THEN 1 ELSE s.slices_per_volume

\* lines 331, 335-341: the number of blocks the loops append
NumBlocks(s) ==
    Max(s.camera_preframes, 0)
    + s.volumes_per_buffer * Slices(s)
        * Min(Len(s.channels_per_slice), Len(s.power_per_channel))

\* lines 329-369: block b (from 0) of the list that is concatenated
Block(s, tm, b) ==
    LET k == b - Max(s.camera_preframes, 0)
        n == Min(Len(s.channels_per_slice), Len(s.power_per_channel))
    IN  IF k < 0 THEN Preframe(tm)
        ELSE Frame(s, tm, (k \div n) % Slices(s),
                   s.channels_per_slice[(k % n) + 1],
                   s.power_per_channel[(k % n) + 1])

\* what _calculate_voltages raises: a KeyError at lines 348/350 for a
\* channel with no entry in names_to_voltage_channels, a ValueError at
\* line 369 when no block was appended
SynthesisRaises(s) ==
    IF \E i \in 1..Min(Len(s.channels_per_slice), Len(s.power_per_channel)) :
           ~(ChannelKeys(s.channels_per_slice[i])
                \subseteq DOMAIN names_to_voltage_channels)
    THEN "KeyError"
    ELSE IF NumBlocks(s) = 0 THEN "ValueError"
    ELSE "none"

\* lines 313-373
calculate_voltages(s, tm) ==
    IF SynthesisRaises(s) # "none"
    THEN [raised |-> SynthesisRaises(s), v |-> <<>>]
    ELSE [raised |-> "none",
          v |-> [r \in 1..(NumBlocks(s) * period_px(tm)) |->
                    Block(s, tm, (r - 1) \div period_px(tm))
                        [((r - 1) % period_px(tm)) + 1]]]

\* lines 674-704
HwVoltages(s, args) ==
    IF DOMAIN args \cap VoltageArgs = {} THEN [hw |-> {}, ok |-> TRUE]
    ELSE IF ~VoltageSettingsLegal(s) THEN [hw |-> {}, ok |-> FALSE]
    ELSE IF SynthesisRaises(s) # "none" THEN [hw |-> {}, ok |-> FALSE]
    ELSE [hw |-> {"ao._write_voltages"}, ok |-> TRUE]

\* lines 698-702: what the devices are left with when the voltage block
\* runs: camera.num_images, set before _calculate_voltages is called, and
\* ao_blocks, the number of blocks (one camera trigger each) of the matrix
\* written to the card
DeviceState(s, args) ==
    IF DOMAIN args \cap VoltageArgs = {} \/ ~VoltageSettingsLegal(s) THEN s
    ELSE IF SynthesisRaises(s) # "none"
    THEN Update(s, [camera_num_images |-> s.images + s.camera_preframes])
    ELSE Update(s, [camera_num_images |-> s.images + s.camera_preframes,
                    ao_blocks |-> NumBlocks(s)])

Hardware(s, args, sample_flag) ==
    LET xy == HwXY(args)
        zf == HwZoomFilter(args)
        af == HwAutofocus(s, args, sample_flag)
        fp == HwFocusPiezo(af.s, args)
        vo == HwVoltages(af.s, args)
    IN  IF ~xy.ok THEN [s |-> s, hw |-> xy.hw, ok |-> FALSE]
        ELSE IF ~zf.ok THEN [s |-> s, hw |-> xy.hw \cup zf.hw, ok |-> FALSE]
        ELSE IF ~af.ok
        THEN [s |-> af.s, hw |-> xy.hw \cup zf.hw \cup af.hw, ok |-> FALSE]
        ELSE IF ~fp.ok
        THEN [s |-> af.s, hw |-> xy.hw \cup zf.hw \cup af.hw \cup fp.hw,
              ok |-> FALSE]
        ELSE [s |-> DeviceState(af.s, args),
              hw |-> xy.hw \cup zf.hw \cup af.hw \cup fp.hw
                       \cup HwCamera(args) \cup vo.hw,
              ok |-> vo.ok]

\* lines 705-720: the calls that wait for what lines 608-702 started without
\* blocking (block=False, ResultThread), fastest to slowest
Finishes_NoJoin(args) ==
    (IF Given(args, "focus_piezo_z_um")
     THEN {"focus_piezo._finish_moving"} ELSE {})
    \cup (IF Given(args, "emission_filter")
          THEN {"filter_wheel._finish_moving"} ELSE {})
    \cup (IF Given(args, "XY_stage_position_mm")
          THEN {"XY_stage._finish_moving"}
          ELSE {"update_XY_stage_position_thread.get_result"})

Finishes(args) ==
    (IF Given(args, "focus_piezo_z_um")
     THEN {"focus_piezo._finish_moving"} ELSE {})
    \cup (IF Given(args, "emission_filter")
          THEN {"filter_wheel._finish_moving"} ELSE {})
    \cup (IF Given(args, "sample_ri")
          THEN {"set_zoom_lens_f_mm_thread.get_result"} ELSE {})
    \cup (IF Given(args, "XY_stage_position_mm")
          THEN {"XY_stage._finish_moving"}
          ELSE {"update_XY_stage_position_thread.get_result"})
    \cup (IF DOMAIN args \cap VoltageArgs # {}
          THEN {"write_voltages_thread.get_result"} ELSE {})

\* lines 705-718: the attributes read back from the devices (a position
\* read from a device is written as the tuple (value, "absolute"))
Finalize(s, args) ==
    Update(IF Given(args, "focus_piezo_z_um")
           THEN Update(s, [focus_piezo_z_um |-> <<0, "absolute">>]) ELSE s,
           [XY_stage_position_mm |-> <<0, 0, "absolute">>])

(***************************************************************************)
(* State                                                                    *)
(***************************************************************************)
VARIABLES
    ntasks,     \* number of calls made so far; task t is the t-th call
    call,       \* call[t]: the call that launched task t
    pc,         \* pc[t]: where task t is in its task function
    queue,      \* queue[r]: the tasks in line for resource r, first first
    held,       \* held[t]: the resources task t has custody of
    self,       \* the Microscope attributes set by apply_settings
    settings_applied,               \* self._settings_applied
    num_active_data_buffers,
    num_active_preview_buffers,
    loc,        \* loc[t]: the local variables of acquire_task
    pts,        \* pts[t]: state of the task's _prepare_to_save thread
    hw,         \* hw[t]: device commands the settings task has issued
    outcome,    \* outcome[t]: how task t ended
    before,     \* the attributes when the last settings task got the camera
    settings_owner, \* the settings task that last got the camera (0: none)
    log,        \* log[t]: what task t has done, in order
    unfinished_tasks,   \* self.unfinished_tasks: the tasks put, first first
    caller      \* the thread that calls the methods of the Microscope

vars == <<ntasks, call, pc, queue, held, self, settings_applied,
          num_active_data_buffers, num_active_preview_buffers, loc, pts, hw,
          outcome, before, settings_owner, log, unfinished_tasks, caller>>

NoCall == [op |-> "none", c |-> "none", display |-> FALSE, filename |-> FALSE]

NoLocals ==
    [pm |-> FALSE, pa |-> 0, vo |-> 0, sl |-> 0, ch |-> 0, h_px |-> 0,
     w_px |-> 0, s_um |-> 0, s_px |-> 0, l_px |-> 0, c_px |-> 0,
     ts |-> "off", im |-> 0, data_shape |-> <<0, 0, 0>>,
     data5_shape |-> <<0, 0, 0, 0, 0>>, preview_buffer |-> <<0, 0, 0, 0>>,
     tmp |-> 0, settings |-> 0]

\* the caller is in its main code, or in finish_all_tasks: about to take a
\* task from the queue ("get_nowait") or waiting for task th ("get_result");
\* running_acquire, after, acquire_count and acquire_number are the state of
\* the 'Run acquire' loop of the GUI; closing and closed tell that close()
\* runs and that it has closed the devices; the running_ fields,
\* scout_mode_status, running_mode and popup are the running mode of the
\* GUI (gui lines 2830-2845), last_call the mode _set_running_mode was last
\* called with and entry_status the scout mode found by its last call with
\* a mode other than 'None'
CallerAtStart ==
    [pc |-> "main", th |-> 0, collected |-> <<>>, raised |-> {},
     running_acquire |-> FALSE, after |-> 0, acquire_count |-> 0,
     acquire_number |-> 0, cancelled |-> FALSE, closing |-> FALSE,
     closed |-> FALSE, running_grid_preview |-> FALSE,
     running_tile_preview |-> FALSE, running_live_mode |-> FALSE,
     running_scout_mode |-> FALSE, scout_mode_status |-> FALSE,
     running_mode |-> "", popup |-> FALSE, last_call |-> "",
     entry_status |-> FALSE]

(***************************************************************************)
(* Microscope.__init__, lines 114-133                                       *)
(***************************************************************************)
InitAttributes ==
    [ timestamp_mode |-> "binary+ASCII",
      autofocus_enabled |-> FALSE,
      focus_piezo_z_um |-> <<0, "absolute">>,
      XY_stage_position_mm |-> <<0, 0, "absolute">>,
      camera_preframes |-> 1,
      max_bytes_per_buffer |-> 1073741824,
      max_data_buffers |-> 4,
      max_preview_buffers |-> 4,
      preview_line_px |-> 10,
      preview_crop_px |-> 3 ]

InitMicroscope ==
    /\ ntasks = 0
    /\ call = [t \in Tasks |-> NoCall]
    /\ pc = [t \in Tasks |-> "idle"]
    /\ queue = [r \in Resources |-> <<>>]
    /\ held = [t \in Tasks |-> {}]
    /\ self = InitAttributes
    /\ settings_applied = FALSE
    /\ num_active_data_buffers = 0
    /\ num_active_preview_buffers = 0
    /\ loc = [t \in Tasks |-> NoLocals]
    /\ pts = [t \in Tasks |-> "none"]
    /\ hw = [t \in Tasks |-> {}]
    /\ outcome = [t \in Tasks |-> "none"]
    /\ before = InitAttributes
    /\ settings_owner = 0
    /\ log = [t \in Tasks |-> <<>>]
    /\ unfinished_tasks = <<>>

Init ==
    /\ InitMicroscope
    /\ caller = CallerAtStart

(***************************************************************************)
(* The custody threads of concurrency_tools (ct.CustodyThread and its       *)
(* custody.switch_from), which the repository imports: modelled from        *)
(* section 4.1 of the specification.  Every resource has a line; a task     *)
(* gets in line for the resource it switches to as it leaves the resource   *)
(* it switches from, and has custody when it is first in line.              *)
(***************************************************************************)
GetInLine(q, t, to) ==
    IF to = "none" THEN q ELSE [q EXCEPT ![to] = Append(@, t)]

LeaveLine(q, t, from) ==
    IF from = "none" THEN q
    ELSE [q EXCEPT ![from] = SelectSeq(@, LAMBDA x : x # t)]

\* the queues after custody.switch_from(from, to=to) has been called by t
SwitchQueues(q, t, from, to) == LeaveLine(GetInLine(q, t, to), t, from)

\* custody.switch_from(..., to=r) returns for t: r is free and t is first
Granted(t, r) == Len(queue[r]) > 0 /\ Head(queue[r]) = t

\* a raise that leaves the task in its lines
RaiseQueues_Keep(q, t) == q

\* a task that raises gives up all custody it has and its places in line
RaiseQueues(q, t) ==
    [r \in Resources |-> SelectSeq(q[r], LAMBDA x : x # t)]

InLine(q, t, r) == \E i \in 1..Len(q[r]) : q[r][i] = t

\* custody.switch_from(None, to=r) by a task that may already be in line for
\* r: it gets in line if it is not, and returns when it is first
CanTake(t, r) == Granted(t, r) \/ (~InLine(queue, t, r) /\ queue[r] = <<>>)

TakeQueues(q, t, r) == IF InLine(q, t, r) THEN q ELSE GetInLine(q, t, r)

InLog(t, e) == \E i \in 1..Len(log[t]) : log[t][i] = e

Logged(t, es) == [log EXCEPT ![t] = @ \o es]

(***************************************************************************)
(* apply_settings and acquire, called from the caller's thread: lines       *)
(* 723-726 and 832-835.  CustodyThread(first_resource=...) puts the new     *)
(* task in line for its first resource before the call returns.             *)
(***************************************************************************)
settings_first_resource == "camera"

acquire_first_resource_None == "none"

acquire_first_resource == "camera"

apply_settings(limit, c) ==
    /\ ntasks < limit
    /\ ntasks' = ntasks + 1
    /\ call' = [call EXCEPT ![ntasks + 1] =
                    [op |-> "settings", c |-> c, display |-> FALSE,
                     filename |-> FALSE]]
    /\ pc' = [pc EXCEPT ![ntasks + 1] = "wait_camera"]
    /\ queue' = GetInLine(queue, ntasks + 1, settings_first_resource)
    /\ unfinished_tasks' = Append(unfinished_tasks, ntasks + 1)
    /\ UNCHANGED <<held, self, settings_applied, num_active_data_buffers,
                   num_active_preview_buffers, loc, pts, hw, outcome, before,
                   settings_owner, log>>

acquire(limit, display, filename) ==
    /\ ntasks < limit
    /\ ntasks' = ntasks + 1
    /\ call' = [call EXCEPT ![ntasks + 1] =
                    [op |-> "acquire", c |-> "none", display |-> display,
                     filename |-> filename]]
    /\ pc' = [pc EXCEPT ![ntasks + 1] = "wait_camera"]
    /\ queue' = GetInLine(queue, ntasks + 1, acquire_first_resource)
    /\ unfinished_tasks' = Append(unfinished_tasks, ntasks + 1)
    /\ UNCHANGED <<held, self, settings_applied, num_active_data_buffers,
                   num_active_preview_buffers, loc, pts, hw, outcome, before,
                   settings_owner, log>>

\* task t raises: it ends, and its custody is released (section 4.1)
Raise(t, how) ==
    /\ pc' = [pc EXCEPT ![t] = "done"]
    /\ outcome' = [outcome EXCEPT ![t] = how]
    /\ queue' = RaiseQueues(queue, t)
    /\ held' = [held EXCEPT ![t] = {}]

(***************************************************************************)
(* settings_task, lines 535-722                                             *)
(***************************************************************************)
\* line 537: self._settings_applied = False # In case the thread crashes
AppliedAtStart_Keep(applied) == applied

AppliedAtStart(applied) == FALSE

\* lines 536-600: get the camera, set the attributes, derive the geometry
SetApplyArgs(t) ==
    /\ pc[t] = "wait_camera" /\ call[t].op = "settings"
    /\ CanTake(t, "camera")
    /\ \E set \in {SetAttrsFrom(self, Args(call[t].c), 1)} :
       \E geo \in {IF set.ok THEN Geometry(set.s, Args(call[t].c))
                   ELSE [s |-> set.s, ok |-> FALSE]} :
           /\ before' = self
           /\ settings_owner' = t
           /\ settings_applied' = AppliedAtStart(settings_applied)
           /\ log' = Logged(t, <<"camera", "write_attributes">>)
           /\ IF ~set.ok
              THEN self' = set.s /\ Raise(t, "fault")
              ELSE IF ~geo.ok
              THEN self' = geo.s /\ Raise(t, "fault")
              ELSE /\ self' = geo.s
                   /\ pc' = [pc EXCEPT ![t] = "check_memory"]
                   /\ queue' = TakeQueues(queue, t, "camera")
                   /\ held' = [held EXCEPT ![t] = @ \cup {"camera"}]
                   /\ UNCHANGED outcome
    /\ UNCHANGED <<ntasks, call, num_active_data_buffers,
                   num_active_preview_buffers, loc, pts, hw>>

\* lines 601-606
SetCheckMemory(t) ==
    /\ pc[t] = "check_memory"
    /\ self' = check_memory(self)
    /\ IF MemoryExceeded(self')
       THEN /\ queue' = SwitchQueues(queue, t, "camera", "none")
            /\ held' = [held EXCEPT ![t] = @ \ {"camera"}]
            /\ pc' = [pc EXCEPT ![t] = "done"]
            /\ outcome' = [outcome EXCEPT ![t] = "rejected"]
            /\ log' = Logged(t, <<"check_memory", "release">>)
       ELSE /\ pc' = [pc EXCEPT ![t] = "hardware"]
            /\ log' = Logged(t, <<"check_memory">>)
            /\ UNCHANGED <<queue, held, outcome>>
    /\ UNCHANGED <<ntasks, call, settings_applied, num_active_data_buffers,
                   num_active_preview_buffers, loc, pts, hw, before,
                   settings_owner>>

\* lines 607-704
SetHardware(t) ==
    /\ pc[t] = "hardware"
    /\ \E sample_flag \in BOOLEAN :
         LET r == Hardware(self, Args(call[t].c), sample_flag)
         IN  /\ self' = r.s
             /\ hw' = [hw EXCEPT ![t] = @ \cup r.hw]
             /\ IF r.ok
                THEN /\ pc' = [pc EXCEPT ![t] = "finalize"]
                     /\ UNCHANGED <<queue, held, outcome>>
                ELSE Raise(t, "fault")
    /\ UNCHANGED <<ntasks, call, settings_applied, num_active_data_buffers,
                   num_active_preview_buffers, loc, pts, before,
                   settings_owner, log>>

\* lines 705-722; device_fault: a device call of these lines raises
SetFinalize(t) ==
    /\ pc[t] = "finalize"
    /\ \E device_fault \in BOOLEAN :
         IF device_fault
         THEN /\ Raise(t, "fault")
              /\ UNCHANGED <<self, settings_applied, log, hw>>
         ELSE /\ self' = Finalize(self, Args(call[t].c))
              /\ hw' = [hw EXCEPT ![t] = @ \cup Finishes(Args(call[t].c))]
              /\ settings_applied' = TRUE
              /\ queue' = SwitchQueues(queue, t, "camera", "none")
              /\ held' = [held EXCEPT ![t] = @ \ {"camera"}]
              /\ pc' = [pc EXCEPT ![t] = "done"]
              /\ outcome' = [outcome EXCEPT ![t] = "ok"]
              /\ log' = Logged(t, <<"release">>)
    /\ UNCHANGED <<ntasks, call, num_active_data_buffers,
                   num_active_preview_buffers, loc, pts, before,
                   settings_owner>>

(***************************************************************************)
(* acquire_task, lines 734-831                                              *)
(***************************************************************************)
\* line 735: custody.switch_from(None, to=self.camera)
AcqCameraGranted_NoWait(t) == TRUE

AcqCameraGranted(t) == CanTake(t, "camera")

\* lines 769-784: the local copies taken while the camera is held
AcqLocals(s, owner) ==
    [NoLocals EXCEPT
       !.pm = s.projection_mode,
       !.pa = s.projection_angle_deg,
       !.vo = s.volumes_per_buffer,
       !.sl = IF s.projection_mode THEN 1 ELSE s.slices_per_volume,
       !.ch = Len(s.channels_per_slice),
       !.h_px = IF s.projection_mode THEN s.projection_height_px
                ELSE s.height_px,
       !.w_px = s.width_px,
       !.s_um = s.sample_px_um,
       !.s_px = s.scan_step_size_px,
       !.l_px = s.preview_line_px,
       !.c_px = s.preview_crop_px,
       !.ts = s.timestamp_mode,
       !.im = s.images + s.camera_preframes,
       !.settings = owner]

\* lines 735-784
AcqGetCamera(t) ==
    /\ pc[t] = "wait_camera" /\ call[t].op = "acquire"
    /\ AcqCameraGranted(t)
    /\ IF ~settings_applied
       THEN /\ queue' = LeaveLine(queue, t, "camera")
            /\ pc' = [pc EXCEPT ![t] = "done"]
            /\ outcome' = [outcome EXCEPT ![t] = "not_applied"]
            /\ log' = Logged(t, <<"camera", "release">>)
            /\ UNCHANGED <<held, self, loc, pts>>
       ELSE /\ queue' = TakeQueues(queue, t, "camera")
            /\ held' = [held EXCEPT ![t] = @ \cup {"camera"}]
            /\ self' = Update(self,
                   (IF self.autofocus_enabled
                    THEN [focus_piezo_z_um |-> <<0, "absolute">>]
                    ELSE [focus_piezo_z_um |-> self.focus_piezo_z_um])
                   @@ [XY_stage_position_mm |-> <<0, 0, "absolute">>])
            /\ loc' = [loc EXCEPT ![t] = AcqLocals(self, settings_owner)]
            /\ pts' = [pts EXCEPT ![t] =
                          IF call[t].filename THEN "started" ELSE "none"]
            /\ pc' = [pc EXCEPT ![t] = "get_data_buffer"]
            /\ log' = Logged(t, <<"camera", "read_attributes">>)
            /\ UNCHANGED outcome
    /\ UNCHANGED <<ntasks, call, settings_applied, num_active_data_buffers,
                   num_active_preview_buffers, hw, before, settings_owner>>

\* lines 481 and 494: the test that ends the wait for a slot
SlotFree_Always(num_active, max_buffers) == TRUE

SlotFree(num_active, max_buffers) == num_active < max_buffers

\* lines 481-485: no slot is free, the loop body runs (logged once)
AcqWaitDataBuffer(t) ==
    /\ pc[t] = "get_data_buffer"
    /\ ~SlotFree(num_active_data_buffers, self.max_data_buffers)
    /\ ~InLog(t, "wait_data_buffer")
    /\ log' = Logged(t, <<"wait_data_buffer">>)
    /\ UNCHANGED <<ntasks, call, pc, queue, held, self, settings_applied,
                   num_active_data_buffers, num_active_preview_buffers, loc,
                   pts, hw, outcome, before, settings_owner>>

\* what follows line 785: the camera thread is started (lines 787-790)
\* before the voltages are played (line 801)
AfterGetDataBuffer_Play == "play"

AfterGetDataBuffer == "start_record"

\* lines 785 and 481-485: wait for a slot, then read the counter to add one
AcqGetDataBuffer(t) ==
    /\ pc[t] = "get_data_buffer"
    /\ SlotFree(num_active_data_buffers, self.max_data_buffers)
    /\ loc' = [loc EXCEPT ![t].data_shape =
                              <<loc[t].im, loc[t].h_px, loc[t].w_px>>,
                          ![t].tmp = num_active_data_buffers]
    /\ pc' = [pc EXCEPT ![t] = AfterGetDataBuffer]
    /\ UNCHANGED <<ntasks, call, queue, held, self, settings_applied,
                   num_active_data_buffers, num_active_preview_buffers, pts,
                   hw, outcome, before, settings_owner, log>>

\* lines 486-487 and 787-790: store the counter, start the camera thread
AcqStartRecord(t) ==
    /\ pc[t] = "start_record"
    /\ num_active_data_buffers' = loc[t].tmp + 1
    /\ pc' = [pc EXCEPT ![t] = "play"]
    /\ log' = Logged(t, <<"get_data_buffer", "record_start">>)
    /\ UNCHANGED <<ntasks, call, queue, held, self, settings_applied,
                   num_active_preview_buffers, loc, pts, hw, outcome, before,
                   settings_owner>>

\* line 801: self.ao.play_voltages(block=False)
AcqPlay(t) ==
    /\ pc[t] = "play"
    /\ pc' = [pc EXCEPT ![t] = "join"]
    /\ log' = Logged(t, <<"play">>)
    /\ UNCHANGED <<ntasks, call, queue, held, self, settings_applied,
                   num_active_data_buffers, num_active_preview_buffers, loc,
                   pts, hw, outcome, before, settings_owner>>

\* the camera thread of lines 787-790: camera.record_to_memory returns when
\* the triggers played by the ao card have filled the data buffer
CameraRecord(t) ==
    /\ InLog(t, "record_start") /\ InLog(t, "play") /\ ~InLog(t, "recorded")
    /\ log' = Logged(t, <<"recorded">>)
    /\ UNCHANGED <<ntasks, call, pc, queue, held, self, settings_applied,
                   num_active_data_buffers, num_active_preview_buffers, loc,
                   pts, hw, outcome, before, settings_owner>>

\* line 802: camera_thread.get_result()
AcqRecordingJoined_NoJoin(t) == TRUE

AcqRecordingJoined(t) == InLog(t, "recorded")

\* line 803: the resource custody.switch_from gives up
AcqPreviewSwitchFrom_None == "none"

AcqPreviewSwitchFrom == "camera"

\* lines 802-803
AcqSwitchToPreview(t) ==
    /\ pc[t] = "join"
    /\ AcqRecordingJoined(t)
    /\ queue' = SwitchQueues(queue, t, AcqPreviewSwitchFrom, "datapreview")
    /\ held' = [held EXCEPT ![t] = @ \ {AcqPreviewSwitchFrom}]
    /\ pc' = [pc EXCEPT ![t] = "wait_preview"]
    /\ log' = Logged(t, <<"release">>)
    /\ UNCHANGED <<ntasks, call, self, settings_applied,
                   num_active_data_buffers, num_active_preview_buffers, loc,
                   pts, hw, outcome, before, settings_owner>>

\* lines 803-806: custody of the preview unit, then the reshape, which reads
\* self.camera_preframes and raises when the frames left do not fill
\* (vo, sl, ch, h_px, w_px)
AcqReshape(t) ==
    /\ pc[t] = "wait_preview"
    /\ Granted(t, "datapreview")
    /\ log' = Logged(t, <<"datapreview", "read_camera_preframes">>)
    /\ IF loc[t].im - self.camera_preframes
            = loc[t].vo * loc[t].sl * loc[t].ch
       THEN /\ loc' = [loc EXCEPT ![t].data5_shape =
                          <<loc[t].vo, loc[t].sl, loc[t].ch, loc[t].h_px,
                            loc[t].w_px>>]
            /\ held' = [held EXCEPT ![t] = @ \cup {"datapreview"}]
            /\ pc' = [pc EXCEPT ![t] = "get_preview_buffer"]
            /\ UNCHANGED <<queue, outcome>>
       ELSE /\ Raise(t, "fault_reshape")
            /\ UNCHANGED loc
    /\ UNCHANGED <<ntasks, call, self, settings_applied,
                   num_active_data_buffers, num_active_preview_buffers, pts,
                   hw, before, settings_owner>>

\* lines 494-498: no slot is free, the loop body runs (logged once)
AcqWaitPreviewBuffer(t) ==
    /\ pc[t] = "get_preview_buffer"
    /\ ~SlotFree(num_active_preview_buffers, self.max_preview_buffers)
    /\ ~InLog(t, "wait_preview_buffer")
    /\ log' = Logged(t, <<"wait_preview_buffer">>)
    /\ UNCHANGED <<ntasks, call, pc, queue, held, self, settings_applied,
                   num_active_data_buffers, num_active_preview_buffers, loc,
                   pts, hw, outcome, before, settings_owner>>

\* lines 807-808 and 494-498: wait for a slot, read self.preview_shape and
\* the counter
AcqGetPreviewBuffer(t) ==
    /\ pc[t] = "get_preview_buffer"
    /\ SlotFree(num_active_preview_buffers, self.max_preview_buffers)
    /\ loc' = [loc EXCEPT ![t].preview_buffer = self.preview_shape,
                          ![t].tmp = num_active_preview_buffers]
    /\ pc' = [pc EXCEPT ![t] = "preview"]
    /\ log' = Logged(t, <<"read_preview_shape">>)
    /\ UNCHANGED <<ntasks, call, queue, held, self, settings_applied,
                   num_active_data_buffers, num_active_preview_buffers, pts,
                   hw, outcome, before, settings_owner>>

\* DataPreview.get, lines 988-996: the shape it computes from the data
PreviewShapeOf(l) ==
    DataPreview_shape(l.pm, l.pa, l.data5_shape[1], l.data5_shape[2],
                      l.data5_shape[3], l.data5_shape[4], l.data5_shape[5],
                      l.s_um, l.s_px, l.l_px, l.c_px, l.ts)

\* lines 499-500 and 809-817: store the counter, compute the preview, hand
\* custody to the display or release it
AcqPreview(t) ==
    /\ pc[t] = "preview"
    /\ num_active_preview_buffers' = loc[t].tmp + 1
    /\ IF loc[t].preview_buffer # PreviewShapeOf(loc[t])
       THEN /\ Raise(t, "fault_shape")
            /\ log' = Logged(t, <<"get_preview_buffer">>)
       ELSE /\ queue' = SwitchQueues(queue, t, "datapreview",
                           IF call[t].display THEN "display" ELSE "none")
            /\ held' = [held EXCEPT ![t] = @ \ {"datapreview"}]
            /\ pc' = [pc EXCEPT ![t] =
                         IF call[t].display THEN "wait_display" ELSE "save"]
            /\ log' = Logged(t, <<"get_preview_buffer", "preview", "release">>)
            /\ UNCHANGED outcome
    /\ UNCHANGED <<ntasks, call, self, settings_applied,
                   num_active_data_buffers, loc, pts, hw, before,
                   settings_owner>>

\* line 812: custody.switch_from(self.datapreview, to=self.display) returns
\* when the task is first in the line of the display
AcqDisplayGranted_NoWait(t) == TRUE

AcqDisplayGranted(t) == Granted(t, "display")

\* lines 812-813
AcqGetDisplay(t) ==
    /\ pc[t] = "wait_display"
    /\ AcqDisplayGranted(t)
    /\ held' = [held EXCEPT ![t] = @ \cup {"display"}]
    /\ pc' = [pc EXCEPT ![t] = "show"]
    /\ log' = Logged(t, <<"display">>)
    /\ UNCHANGED <<ntasks, call, queue, self, settings_applied,
                   num_active_data_buffers, num_active_preview_buffers, loc,
                   pts, hw, outcome, before, settings_owner>>

\* lines 814-815
AcqShow(t) ==
    /\ pc[t] = "show"
    /\ queue' = SwitchQueues(queue, t, "display", "none")
    /\ held' = [held EXCEPT ![t] = @ \ {"display"}]
    /\ pc' = [pc EXCEPT ![t] = "save"]
    /\ log' = Logged(t, <<"show", "release">>)
    /\ UNCHANGED <<ntasks, call, self, settings_applied,
                   num_active_data_buffers, num_active_preview_buffers, loc,
                   pts, hw, outcome, before, settings_owner>>

\* the thread of lines 761-767: _prepare_to_save reads the attributes for
\* the metadata file (lines 409-474) some time before line 819 joins it
PrepareToSave(t) ==
    /\ pts[t] = "started"
    /\ pts' = [pts EXCEPT ![t] = "done"]
    /\ UNCHANGED <<ntasks, call, pc, queue, held, self, settings_applied,
                   num_active_data_buffers, num_active_preview_buffers, loc,
                   hw, outcome, before, settings_owner, log>>

\* lines 818-829 and 491: join the save thread, write the files (io_fault:
\* imwrite raises), read the data counter to subtract one
AcqSave(t) ==
    /\ pc[t] = "save"
    /\ call[t].filename => pts[t] = "done"
    /\ \E io_fault \in {FALSE, call[t].filename} :
         IF io_fault
         THEN /\ Raise(t, "fault")
              /\ UNCHANGED loc
         ELSE /\ loc' = [loc EXCEPT ![t].tmp = num_active_data_buffers]
              /\ pc' = [pc EXCEPT ![t] = "release_data"]
              /\ UNCHANGED <<queue, held, outcome>>
    /\ UNCHANGED <<ntasks, call, self, settings_applied,
                   num_active_data_buffers, num_active_preview_buffers, pts,
                   hw, before, settings_owner, log>>

\* lines 491 and 504: store the data counter, read the preview counter
AcqReleaseDataBuffer(t) ==
    /\ pc[t] = "release_data"
    /\ num_active_data_buffers' = loc[t].tmp - 1
    /\ loc' = [loc EXCEPT ![t].tmp = num_active_preview_buffers]
    /\ pc' = [pc EXCEPT ![t] = "release_preview"]
    /\ log' = Logged(t, <<"release_data_buffer">>)
    /\ UNCHANGED <<ntasks, call, queue, held, self, settings_applied,
                   num_active_preview_buffers, pts, hw, outcome, before,
                   settings_owner>>

\* lines 504 and 830-831: store the preview counter; the task ends
AcqReleasePreviewBuffer(t) ==
    /\ pc[t] = "release_preview"
    /\ num_active_preview_buffers' = loc[t].tmp - 1
    /\ pc' = [pc EXCEPT ![t] = "done"]
    /\ outcome' = [outcome EXCEPT ![t] = "ok"]
    /\ log' = Logged(t, <<"release_preview_buffer">>)
    /\ UNCHANGED <<ntasks, call, queue, held, self, settings_applied,
                   num_active_data_buffers, loc, pts, hw, before,
                   settings_owner>>

\* a step of one of the launched tasks
TaskStep ==
    /\ UNCHANGED <<unfinished_tasks, caller>>
    /\ \E t \in Tasks :
           \/ SetApplyArgs(t)
           \/ SetCheckMemory(t)
           \/ SetHardware(t)
           \/ SetFinalize(t)
           \/ AcqGetCamera(t)
           \/ AcqWaitDataBuffer(t)
           \/ AcqGetDataBuffer(t)
           \/ AcqStartRecord(t)
           \/ AcqPlay(t)
           \/ CameraRecord(t)
           \/ AcqSwitchToPreview(t)
           \/ AcqReshape(t)
           \/ AcqWaitPreviewBuffer(t)
           \/ AcqGetPreviewBuffer(t)
           \/ AcqPreview(t)
           \/ AcqGetDisplay(t)
           \/ AcqShow(t)
           \/ PrepareToSave(t)
           \/ AcqSave(t)
           \/ AcqReleaseDataBuffer(t)
           \/ AcqReleasePreviewBuffer(t)

\* the caller makes up to MaxTasks calls, of any kind, never waiting
Next ==
    \/ \E c \in SettingsCalls :
           apply_settings(MaxTasks, c) /\ UNCHANGED caller
    \/ \E display \in BOOLEAN, filename \in BOOLEAN :
           acquire(MaxTasks, display, filename) /\ UNCHANGED caller
    \/ TaskStep

Spec == Init /\ [][Next]_vars

\* the buffer-pool scenario: the caller makes up to MaxBufferTasks calls,
\* the mandatory call or one that lowers the buffer maxima among them, and
\* acquisitions that are displayed
BufferCalls == {"Full", "FewBuffers"}

NextBuffers ==
    \/ \E c \in BufferCalls :
           apply_settings(MaxBufferTasks, c) /\ UNCHANGED caller
    \/ \E filename \in BOOLEAN :
           acquire(MaxBufferTasks, TRUE, filename) /\ UNCHANGED caller
    \/ TaskStep

SpecBuffers == Init /\ [][NextBuffers]_vars

\* the pool scenario: the mandatory call with one buffer of each kind
\* first, then up to MaxBufferTasks calls in all: acquisitions, and calls
\* that raise or lower the buffer maxima, the caller never waiting
NextPool ==
    \/ /\ ntasks = 0 /\ apply_settings(MaxBufferTasks, "FullFewBuffers")
       /\ UNCHANGED caller
    \/ /\ ntasks > 0 /\ \E c \in {"MoreBuffers", "FewBuffers"} :
                            apply_settings(MaxBufferTasks, c)
       /\ UNCHANGED caller
    \/ /\ ntasks > 0 /\ \E filename \in BOOLEAN :
                            acquire(MaxBufferTasks, TRUE, filename)
       /\ UNCHANGED caller
    \/ TaskStep

SpecPool == Init /\ [][NextPool]_vars

\* the pipeline scenario: the mandatory call first, then up to
\* MaxPipelineTasks calls in all: acquisitions that are displayed, and calls
\* that change the channels and the buffer maxima, the caller never waiting
NextPipeline ==
    \/ /\ ntasks = 0 /\ apply_settings(MaxPipelineTasks, "Full")
       /\ UNCHANGED caller
    \/ /\ ntasks > 0
       /\ apply_settings(MaxPipelineTasks, "OneChannelOneBuffer")
       /\ UNCHANGED caller
    \/ /\ ntasks > 0 /\ \E filename \in BOOLEAN :
                            acquire(MaxPipelineTasks, TRUE, filename)
       /\ UNCHANGED caller
    \/ TaskStep

\* the pipeline scenario with the tasks' threads scheduled fairly
FairPipeline == Init /\ [][NextPipeline]_vars /\ WF_vars(TaskStep)

\* the scan scenario: the mandatory call with one buffer of each kind
\* first, then up to MaxScanTasks calls in all: acquisitions, and calls
\* that change the geometry, legally or not, or change nothing
ScanCalls ==
    {"Width", "Ri", "Projection", "Coarse", "NegativeRange", "LongRange",
     "BadRi", "NoArgs"}

NextScan ==
    \/ /\ ntasks = 0 /\ apply_settings(MaxScanTasks, "FullFewBuffers")
       /\ UNCHANGED caller
    \/ /\ ntasks > 0 /\ \E c \in ScanCalls : apply_settings(MaxScanTasks, c)
       /\ UNCHANGED caller
    \/ /\ ntasks > 0 /\ \E filename \in BOOLEAN :
                            acquire(MaxScanTasks, TRUE, filename)
       /\ UNCHANGED caller
    \/ TaskStep

SpecScan == Init /\ [][NextScan]_vars

\* the threads of the tasks are scheduled fairly: a task that can take a
\* step is not left waiting forever
FairSpec == Spec /\ WF_vars(TaskStep)

(***************************************************************************)
(* Properties                                                               *)
(***************************************************************************)
Launched(t) == t <= ntasks

IsAcquire(t) == call[t].op = "acquire"

IsSettings(t) == call[t].op = "settings"

\* a comes before b in the log of t
Before(t, a, b) ==
    \E i, j \in 1..Len(log[t]) : i < j /\ log[t][i] = a /\ log[t][j] = b

\* the resources task t was granted, in order
Grants(t) == SelectSeq(log[t], LAMBDA e : e \in Resources)

IsPrefix(a, b) ==
    Len(a) <= Len(b) /\ \A i \in 1..Len(a) : a[i] = b[i]

\* at entry i of its log, task t has the camera: it was granted before and
\* not released since
CameraHeldAt(t, i) ==
    \E j \in 1..(i - 1) :
        /\ log[t][j] = "camera"
        /\ \A k \in (j + 1)..(i - 1) : log[t][k] # "release"

\* C1: in every interleaving of settings and acquire tasks, no resource
\* (camera, datapreview, display) is in the custody of two tasks at once.
C1_ExclusiveCustody ==
    \A r \in Resources : \A t1, t2 \in Tasks :
        (r \in held[t1] /\ r \in held[t2]) => t1 = t2

\* two acquire tasks in the pipeline at once: one has the preview unit, the
\* other the camera
C1_Witness ==
    \E t1, t2, t3 \in Tasks :
        /\ IsAcquire(t1) /\ "datapreview" \in held[t1]
        /\ IsAcquire(t2) /\ "camera" \in held[t2]
        /\ IsSettings(t3) /\ outcome[t3] = "ok" /\ t3 < t1 /\ t3 < t2

\* C2: at every point of a settings or acquire task, the task has custody of
\* at most one resource.
C2_OneTokenPerTask == \A t \in Tasks : Cardinality(held[t]) <= 1

\* an acquire task that has handed the camera on and now has the display
C2_Witness ==
    \E t \in Tasks :
        /\ held[t] = {"display"}
        /\ Before(t, "camera", "datapreview")

\* the settings task launched last before task t (0: none)
LastSettingsBefore(t) ==
    LET S == {s \in 1..(t - 1) : IsSettings(s)}
    IN  IF S = {} THEN 0 ELSE CHOOSE s \in S : \A x \in S : x <= s

\* C3: camera custody is granted in launch order: when a task has obtained
\* the camera, every task launched before it has obtained and released it;
\* and an acquire that captures does so with the attributes left by the
\* settings task launched last before it.
C3_CameraInLaunchOrder ==
    /\ \A i, j \in Tasks :
         (i < j /\ Launched(j) /\ pc[j] # "wait_camera")
             => (pc[i] # "wait_camera" /\ "camera" \notin held[i])
    /\ \A t \in Tasks :
         (IsAcquire(t) /\ InLog(t, "read_attributes"))
             => loc[t].settings = LastSettingsBefore(t)

\* an acquire launched right after the second apply_settings has captured
\* with that call's settings
C3_Witness ==
    \E t \in Tasks :
        /\ IsAcquire(t) /\ InLog(t, "record_start")
        /\ t > 2 /\ IsSettings(t - 1)
        /\ loc[t].settings = t - 1

\* C4: within an acquire task custody passes camera, datapreview, display
\* (display only if requested), none, in that order; the preview unit is
\* taken and the preview computed only after the camera thread has filled
\* the data buffer, and the display shows only after the preview returned.
C4_CustodyChain ==
    \A t \in Tasks : IsAcquire(t) =>
        /\ IsPrefix(Grants(t),
                    IF call[t].display
                    THEN <<"camera", "datapreview", "display">>
                    ELSE <<"camera", "datapreview">>)
        /\ InLog(t, "datapreview") => Before(t, "recorded", "datapreview")
        /\ InLog(t, "preview") => Before(t, "recorded", "preview")
        /\ InLog(t, "show") => Before(t, "preview", "show")
        /\ pc[t] \in {"save", "release_data", "release_preview", "done"}
               => held[t] = {}

\* an acquire with display has gone through the whole chain
C4_Witness ==
    \E t \in Tasks :
        /\ IsAcquire(t) /\ call[t].display /\ pc[t] = "done"
        /\ Grants(t) = <<"camera", "datapreview", "display">>
        /\ Before(t, "preview", "show")

\* C5: in every reachable state the outstanding data buffers are at most
\* max_data_buffers and the outstanding preview buffers at most
\* max_preview_buffers, also when apply_settings changes the maxima.
C5_BuffersWithinMax ==
    /\ num_active_data_buffers <= self.max_data_buffers
    /\ num_active_preview_buffers <= self.max_preview_buffers

\* C6: an acquire task takes a data buffer, records and plays only if
\* _settings_applied is True while it has the camera; _settings_applied is
\* True only if the settings task that last had the camera ran to its end
\* without rejection or fault; otherwise the acquire releases the camera
\* having taken no buffer and played nothing.
C6_AcquireOnlyWhenApplied ==
    /\ \A t \in Tasks :
         (IsAcquire(t) /\ "camera" \in held[t]) => settings_applied
    /\ settings_applied =>
         (settings_owner # 0 /\ outcome[settings_owner] = "ok")
    /\ \A t \in Tasks :
         (IsAcquire(t) /\ outcome[t] = "not_applied")
             => (log[t] = <<"camera", "release">> /\ held[t] = {}
                 /\ ~InLine(queue, t, "camera"))
    /\ \A t \in Tasks :
         (IsAcquire(t) /\ InLog(t, "camera") /\ outcome[t] # "not_applied")
             => (LastSettingsBefore(t) # 0
                 /\ outcome[LastSettingsBefore(t)] = "ok")

\* an acquire refused because the settings task before it failed, after an
\* earlier settings task had succeeded
C6_Witness ==
    \E s, t \in Tasks :
        /\ s < t /\ IsSettings(s) /\ outcome[s] = "ok"
        /\ IsAcquire(t) /\ outcome[t] = "not_applied"

\* C7: if an apply_settings call fails (an assertion, a fault, or rejection
\* by the memory check), every settings and derived-geometry attribute has
\* the value it had before the task.
C7_FailedSettingsChangeNothing ==
    (settings_owner # 0 /\ outcome[settings_owner] \in {"rejected", "fault"})
        => self = before

\* C8: when the memory check flags data_buffer_exceeded,
\* preview_buffer_exceeded or total_bytes_exceeded, the settings task issues
\* no hardware command and releases camera custody.
C8_RejectedBeforeHardware ==
    /\ \A t \in Tasks :
         (IsSettings(t) /\ t = settings_owner /\ InLog(t, "check_memory")
          /\ (self.data_buffer_exceeded \/ self.preview_buffer_exceeded
              \/ self.total_bytes_exceeded))
             => (hw[t] = {} /\ held[t] = {} /\ pc[t] = "done"
                 /\ outcome[t] = "rejected"
                 /\ ~InLine(queue, t, "camera"))
    /\ \A t \in Tasks : outcome[t] = "rejected" => hw[t] = {}

\* a settings task rejected by the memory check after a successful one
C8_Witness ==
    \E t \in Tasks :
        /\ t = settings_owner /\ outcome[t] = "rejected"
        /\ self.total_bytes_exceeded
        /\ \E s \in Tasks : s < t /\ hw[s] # {}

\* C9: every read or write of a settings or derived-geometry attribute by an
\* acquire or settings task happens while the task has camera custody.
C9_AttributesUnderCamera ==
    \A t \in Tasks : \A i \in 1..Len(log[t]) :
        log[t][i] \in {"read_attributes", "write_attributes", "check_memory",
                       "read_camera_preframes", "read_preview_shape"}
            => CameraHeldAt(t, i)

\* C10: the preview buffer an acquire task passes to DataPreview.get has the
\* shape DataPreview.shape yields for the data the task captured, so the
\* shape assertion of DataPreview.get never fails.
C10_PreviewShapeMatches ==
    \A t \in Tasks :
        /\ pc[t] = "preview" => loc[t].preview_buffer = PreviewShapeOf(loc[t])
        /\ outcome[t] # "fault_shape"

\* t ended by raising
Faulted(t) == outcome[t] \in {"fault", "fault_reshape", "fault_shape"}

AllDone == \A t \in Tasks : Launched(t) => pc[t] = "done"

\* C12: if an acquire task fails after it obtained a data or preview buffer,
\* the counters are still decremented: when the tasks have ended, a failed
\* acquire has left both counters at their values from before it (0).
C12_FaultReleasesBuffers ==
    (AllDone /\ \E t \in Tasks : IsAcquire(t) /\ Faulted(t)
                                   /\ InLog(t, "get_data_buffer"))
        => (num_active_data_buffers = 0 /\ num_active_preview_buffers = 0)

\* a device call of a task did not return
DeviceFault == \E t \in Tasks : outcome[t] = "fault"

\* C13: for a finite sequence of apply_settings and acquire calls with
\* max_data_buffers >= 1, max_preview_buffers >= 1 and device calls that
\* return, every launched task eventually finishes: no task waits forever
\* for custody or for a buffer slot.
C13_EveryTaskFinishes == ([]~DeviceFault) => []<>AllDone

\* C14: every acquire task that completes without fault releases the data
\* buffer and the preview buffer it obtained: after all launched tasks have
\* finished without fault, both counters are 0.
C14_CountersBackToZero ==
    (AllDone /\ \A t \in Tasks : ~Faulted(t))
        => (num_active_data_buffers = 0 /\ num_active_preview_buffers = 0)

\* t is in the loop of _get_data_buffer / _get_preview_buffer, no slot free
WaitsData(t) ==
    /\ pc[t] = "get_data_buffer"
    /\ num_active_data_buffers >= self.max_data_buffers

WaitsPreview(t) ==
    /\ pc[t] = "get_preview_buffer"
    /\ num_active_preview_buffers >= self.max_preview_buffers

\* at most one task at a time is at _get_data_buffer, and at most one at
\* _get_preview_buffer
OneWaiterPerPool ==
    /\ Cardinality({t \in Tasks : pc[t] = "get_data_buffer"}) <= 1
    /\ Cardinality({t \in Tasks : pc[t] = "get_preview_buffer"}) <= 1

C16_RecordBeforePlay ==
    \A t \in Tasks : IsAcquire(t) =>
        /\ InLog(t, "play") => Before(t, "record_start", "play")
        /\ (InLog(t, "play") /\ "camera" \notin held[t])
               => /\ Before(t, "play", "recorded")
                  /\ Before(t, "recorded", "release")
                  /\ ~Before(t, "release", "recorded")

\* an acquire has recorded and handed the camera on
C16_Witness ==
    \E t \in Tasks :
        /\ IsAcquire(t) /\ pc[t] = "wait_preview"
        /\ Before(t, "record_start", "play")
        /\ Before(t, "recorded", "release")

(***************************************************************************)
(* The voltage block of settings_task, lines 688-704, on its own: the       *)
(* attributes and the device timing are drawn from bounded sets, then the   *)
(* settings are validated, the matrix is calculated and handed to the card. *)
(***************************************************************************)
\* channels_per_slice and power_per_channel, legal and illegal
ChannelSettings ==
    { <<<<"488">>, <<5>>>>,
      <<<<"LED", "561">>, <<10, 100>>>>,
      <<<<"640", "405">>, <<0, 50>>>>,
      <<<<"405_on_during_rolling">>, <<5>>>>,
      <<<<"488", "405_on_during_rolling">>, <<5, 20>>>>,
      <<<<"532">>, <<5>>>>,
      <<<<"488">>, <<101>>>>,
      <<<<"488", "640">>, <<5>>>>,
      <<<<>>, <<>>>> }

VoltageInputs ==
    { [ camera_preframes |-> pre, volumes_per_buffer |-> vol,
        slices_per_volume |-> sl, projection_mode |-> pm,
        channels_per_slice |-> cp[1], power_per_channel |-> cp[2],
        scan_range_um |-> 50000000, galvo_shear_px |-> 10,
        ls_focus_adjust_v |-> 50, ls_angular_dither_v |-> 500,
        camera |-> [exposure_px |-> ex, rolling_px |-> ro],
        ao |-> [s2p_30us |-> ji] ] :
        pre \in 0..MaxPreframes, vol \in 0..MaxVolumes, sl \in 1..MaxSlices,
        pm \in BOOLEAN, cp \in ChannelSettings,
        ex \in {1, 3}, ro \in {0, 2}, ji \in {0, 2} }

\* lines 316-318: what the devices answer
Timing(s) ==
    [exposure_px |-> s.camera.exposure_px, rolling_px |-> s.camera.rolling_px,
     s2p_30us |-> s.ao.s2p_30us]

InitVoltages ==
    /\ ntasks = 1
    /\ call = [t \in Tasks |->
                  IF t = 1 THEN [op |-> "settings", c |-> "none",
                                 display |-> FALSE, filename |-> FALSE]
                  ELSE NoCall]
    /\ pc = [t \in Tasks |-> IF t = 1 THEN "check_voltages" ELSE "idle"]
    /\ queue = [r \in Resources |-> IF r = "camera" THEN <<1>> ELSE <<>>]
    /\ held = [t \in Tasks |-> IF t = 1 THEN {"camera"} ELSE {}]
    /\ self \in VoltageInputs
    /\ settings_applied = FALSE
    /\ num_active_data_buffers = 0
    /\ num_active_preview_buffers = 0
    /\ loc = [t \in Tasks |-> NoLocals]
    /\ pts = [t \in Tasks |-> "none"]
    /\ hw = [t \in Tasks |-> {}]
    /\ outcome = [t \in Tasks |-> "none"]
    /\ before = InitAttributes
    /\ settings_owner = 1
    /\ log = [t \in Tasks |-> <<>>]
    /\ unfinished_tasks = <<>>
    /\ caller = CallerAtStart

\* lines 688-697: the assertions on the settings
CheckVoltageSettings(t) ==
    /\ pc[t] = "check_voltages"
    /\ IF VoltageSettingsLegal(self)
       THEN /\ pc' = [pc EXCEPT ![t] = "calculate_voltages"]
            /\ log' = [log EXCEPT ![t] = Append(@, "validated")]
            /\ UNCHANGED <<queue, held, outcome>>
       ELSE /\ Raise(t, "fault")
            /\ log' = [log EXCEPT ![t] = Append(@, "AssertionError")]
    /\ UNCHANGED <<ntasks, call, self, settings_applied,
                   num_active_data_buffers, num_active_preview_buffers, loc,
                   pts, hw, before, settings_owner>>

\* line 700: self.voltages = self._calculate_voltages()
CalculateVoltages(t) ==
    /\ pc[t] = "calculate_voltages"
    /\ \E r \in {calculate_voltages(self, Timing(self))} :
          IF r.raised = "none"
          THEN /\ self' = Update(self, [voltages |-> r.v])
               /\ pc' = [pc EXCEPT ![t] = "write_voltages"]
               /\ log' = [log EXCEPT ![t] = Append(@, "calculate_voltages")]
               /\ UNCHANGED <<queue, held, outcome>>
          ELSE /\ Raise(t, "fault")
               /\ log' = [log EXCEPT ![t] = Append(@, r.raised)]
               /\ UNCHANGED self
    /\ UNCHANGED <<ntasks, call, settings_applied, num_active_data_buffers,
                   num_active_preview_buffers, loc, pts, hw, before,
                   settings_owner>>

\* lines 701-704 and 719-722: the matrix is written to the card
WriteVoltages(t) ==
    /\ pc[t] = "write_voltages"
    /\ hw' = [hw EXCEPT ![t] = @ \cup {"ao._write_voltages"}]
    /\ log' = [log EXCEPT ![t] = Append(@, "write_voltages")]
    /\ pc' = [pc EXCEPT ![t] = "done"]
    /\ outcome' = [outcome EXCEPT ![t] = "ok"]
    /\ queue' = RaiseQueues(queue, t)
    /\ held' = [held EXCEPT ![t] = {}]
    /\ settings_applied' = TRUE
    /\ UNCHANGED <<ntasks, call, self, num_active_data_buffers,
                   num_active_preview_buffers, loc, pts, before,
                   settings_owner>>

NextVoltages ==
    /\ UNCHANGED <<unfinished_tasks, caller>>
    /\ \E t \in {1} :
        \/ CheckVoltageSettings(t)
        \/ CalculateVoltages(t)
        \/ WriteVoltages(t)

SpecVoltages == InitVoltages /\ [][NextVoltages]_vars

\* the matrix has been calculated
HasVoltages == "voltages" \in DOMAIN self

\* row r (from 1) of block b (from 0) of the calculated matrix
BlockRow(b, r) ==
    self.voltages[b * (Max(self.camera.exposure_px, self.camera.rolling_px)
                       + Max(self.ao.s2p_30us, 1)) + r]

\* C17: the voltage matrix has camera_preframes*period_px +
\* volumes_per_buffer*slices*len(channels_per_slice)*period_px rows, slices
\* being 1 in projection mode and slices_per_volume otherwise, and period_px
\* being max(exposure_px, rolling_px) + jitter_px with jitter_px at least 1.
C17_RowCount ==
    HasVoltages =>
        \E jitter \in {IF self.ao.s2p_30us >= 1 THEN self.ao.s2p_30us ELSE 1} :
        \E period \in {(IF self.camera.exposure_px >= self.camera.rolling_px
                        THEN self.camera.exposure_px
                        ELSE self.camera.rolling_px) + jitter} :
        \E slices \in {IF self.projection_mode THEN 1
                       ELSE self.slices_per_volume} :
            /\ jitter >= 1
            /\ Len(self.voltages) =
                   self.camera_preframes * period
                   + self.volumes_per_buffer * slices
                       * Len(self.channels_per_slice) * period

\* a matrix of preframes and of two slices of two channels, calculated when
\* 30 us is less than one sample of the card
C17_Witness ==
    /\ HasVoltages /\ self.ao.s2p_30us = 0
    /\ self.camera_preframes > 0 /\ ~self.projection_mode
    /\ self.slices_per_volume = 2 /\ Len(self.channels_per_slice) = 2
    /\ self.volumes_per_buffer = 2

\* C18: in every block of the voltage matrix, preframe or exposed frame, the
\* camera-trigger channel is at 5 V on exactly the first rolling_px samples
\* and at zero on all the other samples of the block.
C18_CameraTriggerWindow ==
    HasVoltages =>
        \E period \in {Max(self.camera.exposure_px, self.camera.rolling_px)
                       + Max(self.ao.s2p_30us, 1)} :
            \A b \in 0..((Len(self.voltages) \div period) - 1) :
                \A r \in 1..period :
                    BlockRow(b, r)[names_to_voltage_channels["camera"]] =
                        IF r <= self.camera.rolling_px THEN 5000000 ELSE 0

\* a matrix with a preframe and exposed frames whose rolling time is not zero
C18_Witness ==
    /\ HasVoltages /\ self.camera.rolling_px = 2
    /\ self.camera_preframes > 0 /\ Len(self.channels_per_slice) > 0
    /\ \E r \in 1..Len(self.voltages) : self.voltages[r][11] = 5000000
    /\ \E r \in 1..Len(self.voltages) : self.voltages[r][11] = 0

\* C19: configuration errors about channels and powers are raised by the
\* validation only: an illegal channel or power ends the task before the
\* matrix is calculated or written, and the calculation never raises for
\* settings that passed the validation.
C19_ValidationOnly ==
    \A t \in Tasks :
        /\ InLog(t, "AssertionError")
               => ~HasVoltages /\ hw[t] = {} /\ ~InLog(t, "validated")
        /\ (InLog(t, "validated") /\ pc[t] \in {"write_voltages", "done"})
               => HasVoltages /\ outcome[t] # "fault"

\* C20: in a block whose channel is '405_on_during_rolling' the trigger and
\* power lines of that source are asserted from sample 0 of the block up to
\* period_px - jitter_px.
C20_ExemptSourceFromSampleZero ==
    \A t \in Tasks :
        \A i \in 1..Len(self.channels_per_slice) :
            (/\ self.channels_per_slice[i] = "405_on_during_rolling"
             /\ InLog(t, "validated") /\ pc[t] = "done")
            => /\ HasVoltages
               /\ ChannelKeys("405_on_during_rolling")
                      \subseteq DOMAIN names_to_voltage_channels
               /\ \A r \in 1..Max(self.camera.exposure_px,
                                  self.camera.rolling_px) :
                      \A k \in ChannelKeys("405_on_during_rolling") :
                          BlockRow(self.camera_preframes + i - 1, r)
                              [names_to_voltage_channels[k]] > 0

\* C21: in every exposed block of a non-exempt channel the power line of the
\* channel is at 4.5*power/100 V (and, for a laser, its TTL line at 10 V) on
\* exactly the samples rolling_px .. period_px - jitter_px - 1 and at zero
\* elsewhere, and the illumination lines of the other channels are at zero
\* throughout the block.
C21_LightWindow ==
    HasVoltages =>
        LET n2c == names_to_voltage_channels
            jitter == IF self.ao.s2p_30us >= 1 THEN self.ao.s2p_30us ELSE 1
            lit == IF self.camera.exposure_px >= self.camera.rolling_px
                   THEN self.camera.exposure_px ELSE self.camera.rolling_px
            period == lit + jitter
            n == Len(self.channels_per_slice)
            lines == {"405_TTL", "405_power", "488_TTL", "488_power",
                      "561_TTL", "561_power", "640_TTL", "640_power",
                      "LED_power"}
        IN  \A b \in self.camera_preframes..((Len(self.voltages) \div period) - 1) :
                LET i == ((b - self.camera_preframes) % n) + 1
                    channel == self.channels_per_slice[i]
                    power == self.power_per_channel[i]
                IN  channel # "405_on_during_rolling" =>
                    \A r \in 1..period :
                        LET on == self.camera.rolling_px < r /\ r <= lit
                        IN  /\ BlockRow(b, r)[n2c[channel \o "_power"]] =
                                   IF on THEN 45000 * power ELSE 0
                            /\ channel # "LED" =>
                                   BlockRow(b, r)[n2c[channel \o "_TTL"]] =
                                       IF on THEN 10000000 ELSE 0
                            /\ \A k \in lines :
                                   k \notin {channel \o "_power",
                                             channel \o "_TTL"}
                                       => BlockRow(b, r)[n2c[k]] = 0

\* a matrix whose frames of the LED and of a laser at full power have a
\* window after the rolling time
C21_Witness ==
    /\ HasVoltages
    /\ self.channels_per_slice = <<"LED", "561">>
    /\ self.camera.rolling_px = 2 /\ self.camera.exposure_px = 3
    /\ self.camera_preframes = 1
    /\ BlockRow(2, 3)[names_to_voltage_channels["561_power"]] = 4500000
    /\ BlockRow(1, 3)[names_to_voltage_channels["LED_power"]] = 450000

\* the last voxel_aspect_ratio asked for, by task t or a settings task
\* launched before it
RequestedVar(t) ==
    LET asked == {u \in 1..t : IsSettings(u)
                     /\ Given(Args(call[u].c), "voxel_aspect_ratio")}
        last == CHOOSE u \in asked : \A x \in asked : x <= u
    IN  Args(call[last].c).voxel_aspect_ratio

\* C22: after every apply_settings that completes successfully,
\* scan_step_size_px is an integer >= 1 equal to
\* max(round(voxel_aspect_ratio_requested / tan(tilt)), 1) and
\* slices_per_volume is an integer >= 1.
C22_ScanStepFromRequest ==
    \A t \in Tasks :
        (IsSettings(t) /\ settings_owner = t /\ outcome[t] = "ok") =>
            /\ self.scan_step_size_px >= 1
            /\ self.scan_step_size_px =
                   Max(Round(RequestedVar(t) * 1000, TAN_TILT_E6), 1)
            /\ self.slices_per_volume >= 1

\* settings task t takes the step that runs the geometry block of lines
\* 544-600, no voxel_aspect_ratio or scan_range_um being given
RerunsGeometry(t) ==
    /\ IsSettings(t) /\ pc[t] = "wait_camera" /\ settings_owner' = t
    /\ DOMAIN Args(call[t].c) \cap GeometryArgs # {}
    /\ DOMAIN Args(call[t].c) \cap {"voxel_aspect_ratio", "scan_range_um"} = {}
    /\ "scan_step_size_px" \in DOMAIN self

ScanUnchanged ==
    /\ self'.scan_step_size_px = self.scan_step_size_px
    /\ self'.slices_per_volume = self.slices_per_volume
    /\ self'.scan_range_um = self.scan_range_um

\* the stored scan is what a completed geometry block leaves: achieved
\* values, derived from the stored sample_px_um
ScanLegalized(s) ==
    /\ s.scan_step_size_um =
           calculate_scan_step_size_um(s.sample_px_um, s.scan_step_size_px)
    /\ s.voxel_aspect_ratio =
           calculate_voxel_aspect_ratio(s.scan_step_size_px)
    /\ s.scan_range_um =
           calculate_scan_range_um(s.sample_px_um, s.scan_step_size_px,
                                   s.slices_per_volume)
    /\ s.projection_mode => s.scan_step_size_px = 1

\* C23 as stated: a later apply_settings that runs the geometry block again
\* without a new voxel_aspect_ratio or scan_range_um leaves
\* scan_step_size_px, slices_per_volume and scan_range_um unchanged.
C23_RerunKeepsScan ==
    [][\A t \in Tasks : RerunsGeometry(t) => ScanUnchanged]_vars

\* C23: legalization is idempotent: the achieved voxel_aspect_ratio and
\* scan_range_um fed back through calculate_cuboid_voxel_scan with the same
\* sample_px_um give the same scan_step_size_px and slices_per_volume; so an
\* apply_settings that runs the geometry block again on a legalized scan,
\* with no new voxel_aspect_ratio or scan_range_um and with sample_ri and
\* projection_mode unchanged, leaves scan_step_size_px, slices_per_volume
\* and scan_range_um unchanged.
C23_LegalizedScanIsFixedPoint ==
    /\ [](("scan_step_size_px" \in DOMAIN self /\ ScanLegalized(self))
            => calculate_cuboid_voxel_scan(
                   self.sample_px_um, self.voxel_aspect_ratio,
                   self.scan_range_um)
               = <<self.scan_step_size_px, self.slices_per_volume>>)
    /\ [][\A t \in Tasks :
            (/\ RerunsGeometry(t)
             /\ ScanLegalized(self)
             /\ {"sample_ri", "projection_mode"}
                    \cap DOMAIN Args(call[t].c) = {})
            => ScanUnchanged]_vars

\* the geometry block has run again, for a new width only, on a scan of
\* 3-pixel steps, and has passed
C23_Witness ==
    \E t, u \in Tasks :
        /\ u < t /\ IsSettings(u) /\ call[u].c = "Coarse" /\ outcome[u] = "ok"
        /\ IsSettings(t) /\ call[t].c = "Width" /\ settings_owner = t
        /\ pc[t] = "check_memory"
        /\ self.scan_step_size_px = 3 /\ self.width_px = 1000
        /\ ScanLegalized(self)

\* settings task t takes the step that runs the geometry block, and the
\* scan_range_um it derives from the legalized step and slices is outside
\* [0, 500] um
DerivesIllegalRange(t) ==
    /\ IsSettings(t) /\ pc[t] = "wait_camera" /\ settings_owner' = t
    /\ DOMAIN Args(call[t].c) \cap GeometryArgs # {}
    /\ {"scan_range_um", "scan_step_size_px"} \subseteq DOMAIN self'
    /\ self'.scan_range_um =
           calculate_scan_range_um(self'.sample_px_um,
               self'.scan_step_size_px, self'.slices_per_volume)
    /\ ~(0 <= self'.scan_range_um /\ self'.scan_range_um <= 500000000)

\* C24: if the scan_range_um derived from the legalized step and slice count
\* is outside [0, 500], the settings task fails before any hardware command
\* is sent and _settings_applied stays False, so that no later acquire
\* captures until an apply_settings succeeds.
C24_IllegalRangeFailsEarly ==
    /\ [][\A t \in Tasks : DerivesIllegalRange(t) =>
              /\ pc'[t] = "done" /\ outcome'[t] = "fault"
              /\ hw'[t] = {} /\ ~settings_applied'
              /\ held'[t] = {}]_vars
    /\ [](\A t, u \in Tasks :
            (/\ IsSettings(t) /\ outcome[t] = "fault"
             /\ log[t] = <<"camera", "write_attributes">>
             /\ IsAcquire(u) /\ LastSettingsBefore(u) = t
             /\ InLog(u, "camera"))
            => /\ outcome[u] = "not_applied"
               /\ ~InLog(u, "get_data_buffer") /\ ~InLog(u, "play"))

\* after a successful apply_settings a range of 600 um was asked for and
\* refused, and the acquire launched next captured nothing
C24_Witness ==
    \E s, t, u \in Tasks :
        /\ s < t /\ t < u /\ IsSettings(s) /\ outcome[s] = "ok"
        /\ IsSettings(t) /\ call[t].c = "LongRange" /\ outcome[t] = "fault"
        /\ hw[t] = {} /\ self.scan_range_um > 500000000
        /\ IsAcquire(u) /\ LastSettingsBefore(u) = t
        /\ outcome[u] = "not_applied"

\* C30: whenever _settings_applied is True the stored settings satisfy every
\* validation constraint of apply_settings: 1.33 <= sample_ri <= 1.51,
\* 0 <= projection_angle_deg <= 90, every channel in illumination_sources,
\* as many powers as channels, every power in [0, 100], volumes_per_buffer
\* positive, 0 <= scan_range_um <= 500; for every sequence of calls.
C30_AppliedSettingsAreValid ==
    settings_applied =>
        /\ 133 <= self.sample_ri /\ self.sample_ri <= 151
        /\ 0 <= self.projection_angle_deg /\ self.projection_angle_deg <= 90
        /\ \A i \in 1..Len(self.channels_per_slice) :
               self.channels_per_slice[i] \in illumination_sources
        /\ Len(self.power_per_channel) = Len(self.channels_per_slice)
        /\ \A i \in 1..Len(self.power_per_channel) :
               0 <= self.power_per_channel[i]
               /\ self.power_per_channel[i] <= 100
        /\ self.volumes_per_buffer > 0
        /\ 0 <= self.scan_range_um /\ self.scan_range_um <= 500000000

(***************************************************************************)
(* DataNative.get and DataRoi.get, lines 1118-1213, on a stack of one       *)
(* volume and one channel: data[i][y][x] is the pixel of slice i - 1, row   *)
(* y - 1, column x - 1.                                                     *)
(***************************************************************************)
\* line 1209: int(np.rint(i * scan_step_size_px)), i from 0
prop_px_shear_None(i, scan_step_size_px) == 0

prop_px_shear(i, scan_step_size_px) == i * scan_step_size_px

\* lines 1197-1213
DataNative_get(data, scan_step_size_px) ==
    LET slices == Len(data)
        h_px == Len(data[1])
        w_px == Len(data[1][1])
        scan_step_px_max == prop_px_shear(slices - 1, scan_step_size_px)
    IN  [i \in 1..slices |->
          [y \in 1..(h_px + scan_step_px_max) |->
            [x \in 1..w_px |->
               IF prop_px_shear(i - 1, scan_step_size_px) < y
                  /\ y <= h_px + prop_px_shear(i - 1, scan_step_size_px)
               THEN data[i][y - prop_px_shear(i - 1, scan_step_size_px)][x]
               ELSE 0]]]

SeqMax(S) == CHOOSE m \in S : \A x \in S : x <= m
SeqMin(S) == CHOOSE m \in S : \A x \in S : m <= x

\* lines 1140-1150 before the smoothing: the three lines of maxima over the
\* rows t_px .. h_px - b_px - 1
RoiLines(data, t_px, b_px) ==
    LET slices == Len(data)
        rows == (t_px + 1)..(Len(data[1]) - b_px)
        cols == 1..Len(data[1][1])
    IN  [scan |-> [i \in 1..slices |->
                     SeqMax({data[i][y][x] : y \in rows, x \in cols})],
         prop |-> [k \in 1..Cardinality(rows) |->
                     SeqMax({data[i][t_px + k][x] :
                                i \in 1..slices, x \in cols})],
         width |-> [x \in cols |->
                     SeqMax({data[i][y][x] : i \in 1..slices, y \in rows})]]

\* scipy's gaussian_filter1d, as called on lines 1145-1150: a weighted mean
\* of the neighbours, cast to the type of the line; every value it returns
\* is between the least and the largest value of the line
gaussian_filter1d(line) ==
    [1..Len(line) ->
        SeqMin({line[i] : i \in 1..Len(line)})
            ..SeqMax({line[i] : i \in 1..Len(line)})]

\* lines 1152-1154: int(min(line) * signal_to_bg_ratio), the ratio 1.2
Threshold(line) == (SeqMin({line[i] : i \in 1..Len(line)}) * 12) \div 10

\* lines 1158-1169: the first i of range(n) with line[i] above the
\* threshold, n if there is none
FirstAbove(line, n) ==
    LET above == {i \in 0..(n - 1) : line[i + 1] > Threshold(line)}
    IN  IF above = {} THEN n ELSE SeqMin(above)

\* lines 1170-1181: the first i of range(n) with line[-i] above the
\* threshold, n if there is none; line[-0] is line[0]
FirstAboveFromEnd(line, n) ==
    LET above == {i \in 0..(n - 1) :
                     line[IF i = 0 THEN 1 ELSE Len(line) - i + 1]
                         > Threshold(line)}
    IN  IF above = {} THEN n ELSE SeqMin(above)

\* line 1157
max_index_zyx_Size(slices, h_px, w_px) == <<slices, h_px, w_px>>

max_index_zyx(slices, h_px, w_px) == <<slices - 1, h_px - 1, w_px - 1>>

\* lines 1156-1190, given the smoothed lines; the result is the box
\* min_i, max_i and the crop data[min_i : max_i] on the three axes
DataRoi_crop(data, t_px, b_px, scan_line, prop_line, width_line) ==
    LET slices == Len(data)
        h_px == Len(data[1])
        w_px == Len(data[1][1])
        top == max_index_zyx(slices, h_px, w_px)
        lo0 == FirstAbove(scan_line, slices)
        lo1 == FirstAbove(prop_line, h_px - t_px - b_px)
        lo2 == FirstAbove(width_line, w_px)
        hi0 == FirstAboveFromEnd(scan_line, slices)
        hi1 == FirstAboveFromEnd(prop_line, h_px - t_px - b_px)
        hi2 == FirstAboveFromEnd(width_line, w_px)
        min_i == <<IF lo0 < slices THEN lo0 ELSE 0,
                   IF lo1 < h_px - t_px - b_px THEN lo1 + t_px ELSE 0,
                   IF lo2 < w_px THEN lo2 ELSE 0>>
        max_i == <<IF hi0 < slices THEN top[1] - hi0 ELSE top[1],
                   IF hi1 < h_px - t_px - b_px THEN top[2] - hi1 - b_px
                   ELSE top[2],
                   IF hi2 < w_px THEN top[3] - hi2 ELSE top[3]>>
    IN  [min_i |-> min_i, max_i |-> max_i,
         shape |-> [a \in 1..3 |-> Max(max_i[a] - min_i[a], 0)],
         data_roi |->
             [i \in 1..Max(max_i[1] - min_i[1], 0) |->
               [y \in 1..Max(max_i[2] - min_i[2], 0) |->
                 [x \in 1..Max(max_i[3] - min_i[3], 0) |->
                    data[min_i[1] + i][min_i[2] + y][min_i[3] + x]]]]]

\* the stacks given: all zero, one bright pixel, or a chequered pattern
Stacks ==
    UNION { {[i \in 1..sl |-> [y \in 1..h |-> [x \in 1..w |-> 0]]],
             [i \in 1..sl |-> [y \in 1..h |-> [x \in 1..w |->
                                 1 + ((i + y + x) % 2)]]]}
            \cup {[i \in 1..sl |-> [y \in 1..h |-> [x \in 1..w |->
                     IF <<i, y, x>> = p THEN 1 ELSE 0]]] :
                     p \in (1..sl) \X (1..h) \X (1..w)} :
            sl \in 1..MaxStackSlices, h \in 1..MaxStackHeight,
            w \in 1..MaxStackWidth }

InitViews ==
    /\ ntasks = 0
    /\ call = [t \in Tasks |-> NoCall]
    /\ pc = [t \in Tasks |-> "idle"]
    /\ queue = [r \in Resources |-> <<>>]
    /\ held = [t \in Tasks |-> {}]
    /\ self \in {[data |-> d, scan_step_size_px |-> st,
                  preview_crop_px |-> cr, timestamp_mode |-> "off"] :
                     d \in Stacks, st \in 1..2, cr \in 0..1}
    /\ settings_applied = FALSE
    /\ num_active_data_buffers = 0
    /\ num_active_preview_buffers = 0
    /\ loc = [t \in Tasks |-> NoLocals]
    /\ pts = [t \in Tasks |-> "none"]
    /\ hw = [t \in Tasks |-> {}]
    /\ outcome = [t \in Tasks |-> "none"]
    /\ before = InitAttributes
    /\ settings_owner = 0
    /\ log = [t \in Tasks |-> <<>>]
    /\ unfinished_tasks = <<>>
    /\ caller = CallerAtStart

\* the caller calls DataNative().get(data, scan_step_size_px)
CallDataNative(t) ==
    /\ pc[t] = "idle"
    /\ self' = Update(self, [data_native |->
                   DataNative_get(self.data, self.scan_step_size_px)])
    /\ pc' = [pc EXCEPT ![t] = "done"]
    /\ outcome' = [outcome EXCEPT ![t] = "ok"]
    /\ log' = Logged(t, <<"DataNative.get">>)
    /\ UNCHANGED <<ntasks, call, queue, held, settings_applied,
                   num_active_data_buffers, num_active_preview_buffers, loc,
                   pts, hw, before, settings_owner>>

\* the caller calls DataRoi().get(data, preview_crop_px, timestamp_mode);
\* np.amax raises ValueError at line 1140 when no row is left
CallDataRoi(t) ==
    /\ pc[t] = "idle"
    /\ \E t_px \in {IF self.timestamp_mode = "binary+ASCII" THEN 8
                    ELSE self.preview_crop_px} :
       \E b_px \in {self.preview_crop_px} :
          IF t_px >= Len(self.data[1]) - b_px
          THEN /\ outcome' = [outcome EXCEPT ![t] = "fault"]
               /\ log' = Logged(t, <<"DataRoi.get", "ValueError">>)
               /\ UNCHANGED self
          ELSE \E lines \in {RoiLines(self.data, t_px, b_px)} :
               \E scan_line \in gaussian_filter1d(lines.scan) :
               \E prop_line \in gaussian_filter1d(lines.prop) :
               \E width_line \in gaussian_filter1d(lines.width) :
                  /\ self' = Update(self, [roi |->
                         DataRoi_crop(self.data, t_px, b_px, scan_line,
                                      prop_line, width_line)])
                  /\ outcome' = [outcome EXCEPT ![t] = "ok"]
                  /\ log' = Logged(t, <<"DataRoi.get">>)
    /\ pc' = [pc EXCEPT ![t] = "done"]
    /\ UNCHANGED <<ntasks, call, queue, held, settings_applied,
                   num_active_data_buffers, num_active_preview_buffers, loc,
                   pts, hw, before, settings_owner>>

NextViews ==
    /\ UNCHANGED <<unfinished_tasks, caller>>
    /\ \E t \in {1} :
        \/ CallDataNative(t)
        \/ CallDataRoi(t)

SpecViews == InitViews /\ [][NextViews]_vars

\* C25: for every input stack and every integer scan_step_size_px >= 1,
\* DataNative.get returns a stack of height h_px + (slices-1)*
\* scan_step_size_px in which slice i holds the input slice i unmodified at
\* rows i*scan_step_size_px .. i*scan_step_size_px + h_px - 1 and zero in
\* every other row.
C25_NativeShear ==
    "data_native" \in DOMAIN self =>
        LET h_px == Len(self.data[1])
            step == self.scan_step_size_px
        IN  /\ Len(self.data_native) = Len(self.data)
            /\ \A i \in 0..(Len(self.data) - 1) :
                 /\ Len(self.data_native[i + 1]) =
                        h_px + (Len(self.data) - 1) * step
                 /\ \A y \in 0..(Len(self.data_native[i + 1]) - 1) :
                        self.data_native[i + 1][y + 1] =
                            IF i * step <= y /\ y < i * step + h_px
                            THEN self.data[i + 1][y - i * step + 1]
                            ELSE [x \in 1..Len(self.data[1][1]) |-> 0]

\* the native view of a chequered stack of three slices, two pixels apart
C25_Witness ==
    /\ "data_native" \in DOMAIN self
    /\ Len(self.data) = 3 /\ self.scan_step_size_px = 2
    /\ Len(self.data[1]) = 2 /\ Len(self.data_native[1]) = 6
    /\ self.data[1][1][1] = 1
    /\ self.data_native[3][5] = self.data[3][1]

\* the stack given is all zero
AllZero(data) ==
    \A i \in 1..Len(data) : \A y \in 1..Len(data[1]) :
        \A x \in 1..Len(data[1][1]) : data[i][y][x] = 0

\* C26: for an all-zero input stack DataRoi.get returns a stack with the
\* shape and the content of the input: nothing is cropped on any axis.
C26_AllZeroUncropped ==
    ("roi" \in DOMAIN self /\ AllZero(self.data)) =>
        /\ self.roi.shape = <<Len(self.data), Len(self.data[1]),
                              Len(self.data[1][1])>>
        /\ self.roi.data_roi = self.data

\* C27: for every input stack whose dimensions are all >= 1 the crop
\* returned by DataRoi.get has length >= 1 on the slice, height and width
\* axes, every lower bound being below its upper bound.
C27_CropNotEmpty ==
    \A t \in Tasks : InLog(t, "DataRoi.get") =>
        /\ "roi" \in DOMAIN self
        /\ \A a \in 1..3 :
               self.roi.min_i[a] < self.roi.max_i[a] /\ self.roi.shape[a] >= 1



(***************************************************************************)
(* finish_all_tasks, lines 837-846                                          *)
(***************************************************************************)
\* the bound on the tasks of the scenario of finish_all_tasks
MaxFinishTasks == 3

\* everything but the caller and the queue of unfinished tasks
TaskVars ==
    <<ntasks, call, pc, queue, held, self, settings_applied,
      num_active_data_buffers, num_active_preview_buffers, loc, pts, hw,
      outcome, before, settings_owner, log>>

\* the caller is not inside a method of the Microscope
CallerFree == caller.pc \in {"main", "returned", "raised"}

\* th.get_result() (section 4.1): it blocks the calling thread until the
\* task has finished, and re-raises the fault the task raised
get_result(th) ==
    IF pc[th] # "done" THEN "blocks"
    ELSE IF Faulted(th) THEN "raises" ELSE "returns"

\* lines 841-843: get_nowait() raises queue.Empty, and the loop ends
LoopEnds_AtOnce(unfinished) == TRUE

LoopEnds(unfinished) == unfinished = <<>>

\* lines 837-838: the call, collected_tasks = []
FinishAllTasks ==
    /\ CallerFree
    /\ caller' = [caller EXCEPT !.pc = "get_nowait", !.collected = <<>>,
                                !.th = 0]
    /\ UNCHANGED TaskVars
    /\ UNCHANGED unfinished_tasks

\* lines 839-843 and 846: the next task of the queue, or the return
FinishGetNowait ==
    /\ caller.pc = "get_nowait"
    /\ IF LoopEnds(unfinished_tasks)
       THEN /\ caller' = [caller EXCEPT !.pc = "returned", !.th = 0]
            /\ UNCHANGED unfinished_tasks
       ELSE /\ caller' = [caller EXCEPT !.pc = "get_result",
                                        !.th = Head(unfinished_tasks)]
            /\ unfinished_tasks' = Tail(unfinished_tasks)
    /\ UNCHANGED TaskVars

\* lines 844-845: th.get_result(), collected_tasks.append(th)
FinishGetResult ==
    /\ caller.pc = "get_result"
    /\ get_result(caller.th) # "blocks"
    /\ IF get_result(caller.th) = "raises"
       THEN caller' = [caller EXCEPT !.pc = "raised",
                                     !.raised = @ \cup {caller.th}]
       ELSE caller' = [caller EXCEPT !.pc = "get_nowait",
                                     !.collected = Append(@, caller.th)]
    /\ UNCHANGED TaskVars
    /\ UNCHANGED unfinished_tasks

\* the caller goes on with its main code
BackToMain == [caller EXCEPT !.pc = "main", !.th = 0]

\* the scenario of finish_all_tasks: up to MaxFinishTasks calls, legal or
\* not, the caller calling finish_all_tasks between them as it likes, and
\* again after a fault was re-raised to it
FinishCalls == {"Full", "BadRi"}

NextFinish ==
    \/ /\ CallerFree
       /\ \E c \in FinishCalls : apply_settings(MaxFinishTasks, c)
       /\ caller' = BackToMain
    \/ /\ CallerFree
       /\ \E filename \in BOOLEAN : acquire(MaxFinishTasks, TRUE, filename)
       /\ caller' = BackToMain
    \/ FinishAllTasks
    \/ FinishGetNowait
    \/ FinishGetResult
    \/ TaskStep

SpecFinish == Init /\ [][NextFinish]_vars

InSeq(x, q) == \E i \in 1..Len(q) : q[i] = x

\* C28: when finish_all_tasks returns, every task launched by apply_settings
\* or acquire before the call has finished and the queue of unfinished tasks
\* is empty; the fault of a task is not swallowed: no task that raised is
\* among the collected ones, the call that awaited it ended by raising that
\* fault, and a task that raised is either still in the queue, to be awaited
\* by a later call, or its fault was re-raised to the caller.
C28_FinishAllTasks ==
    /\ caller.pc = "returned" =>
          /\ unfinished_tasks = <<>>
          /\ \A t \in Tasks : Launched(t) => pc[t] = "done"
    /\ \A t \in Tasks : InSeq(t, caller.collected) =>
          pc[t] = "done" /\ ~Faulted(t)
    /\ caller.pc = "raised" => Faulted(caller.th)
    /\ \A t \in Tasks :
          Launched(t) /\ Faulted(t) =>
             \/ InSeq(t, unfinished_tasks)
             \/ t \in caller.raised
             \/ caller.pc = "get_result" /\ caller.th = t

\* finish_all_tasks has returned after it collected an acquisition, a fault
\* having been re-raised to the caller by an earlier call
C28_Witness ==
    /\ caller.pc = "returned"
    /\ caller.raised # {}
    /\ \E t \in Tasks : InSeq(t, caller.collected) /\ IsAcquire(t)


(***************************************************************************)
(* 'Run acquire' of the GUI and its cancel button:                          *)
(* ht_sols_microscope_gui.py, lines 2735-2802 and 2846-2849.  The callbacks *)
(* of the GUI run one at a time, on the thread of the GUI.                  *)
(***************************************************************************)
\* the bound on the tasks of the GUI scenario, and on the acquire number
MaxCancelTasks == 3

MaxAcquireNumber == 2

\* _set_running_mode, gui lines 2869-2872: every mode variable but the one
\* of mode is set to 0
ClearExcept_Nothing(c, mode) == c

ClearExcept(c, mode) ==
    [c EXCEPT
       !.running_grid_preview = IF mode = "grid_preview" THEN @ ELSE FALSE,
       !.running_tile_preview = IF mode = "tile_preview" THEN @ ELSE FALSE,
       !.running_live_mode = IF mode = "live_mode" THEN @ ELSE FALSE,
       !.running_scout_mode = IF mode = "scout_mode" THEN @ ELSE FALSE,
       !.running_acquire = IF mode = "acquire" THEN @ ELSE FALSE]

\* _set_running_mode, gui lines 2865-2889, c the state of the GUI
set_running_mode(c, mode) ==
    LET c1 == IF mode # "None"
              THEN ClearExcept(
                       [c EXCEPT !.scout_mode_status = c.running_scout_mode],
                       mode)
              ELSE c
        c2 == IF mode \in {"grid_preview", "tile_preview", "acquire"}
              THEN [c1 EXCEPT !.running_mode = mode, !.popup = TRUE]
              ELSE c1
    IN  IF mode = "None"
        THEN [ClearExcept(c2, "None") EXCEPT
                !.popup = FALSE,
                !.running_scout_mode = c2.scout_mode_status]
        ELSE c2

\* a call of _set_running_mode, noted in last_call and entry_status
CallSetRunningMode(c, mode) ==
    [set_running_mode(c, mode) EXCEPT
        !.last_call = mode,
        !.entry_status = IF mode # "None" THEN c.running_scout_mode ELSE @]

\* the GUI is up: its mandatory call has returned (lines 60-76 of the GUI)
GuiReady == ntasks > 0 /\ get_result(1) = "returns"

\* line 2743: if not self.running_acquire.get(): return None
CheckForCancel_None(c) == FALSE

CheckForCancel(c) == ~c.running_acquire

\* _run_acquire, lines 2742-2800, c the state of the GUI at its start: the
\* check for cancel, the acquisition, and either the next _run_acquire
\* scheduled with root.after or the call of finish_all_tasks
RunAcquire(c) ==
    IF CheckForCancel(c)
    THEN /\ caller' = c
         /\ UNCHANGED TaskVars
         /\ UNCHANGED unfinished_tasks
    ELSE /\ acquire(MaxCancelTasks, TRUE, TRUE)
         /\ caller' = IF c.acquire_count + 1 < c.acquire_number
                      THEN [c EXCEPT !.acquire_count = @ + 1,
                                     !.after = @ + 1]
                      ELSE [c EXCEPT !.acquire_count = @ + 1,
                                     !.pc = "get_nowait",
                                     !.collected = <<>>, !.th = 0]

\* _acquire, lines 2735-2741 and 2801: the button sets running_acquire, the
\* count starts from 0 and _run_acquire runs for the first time
GuiAcquire(n) ==
    /\ GuiReady /\ CallerFree
    /\ ~caller.running_acquire
    /\ RunAcquire(CallSetRunningMode(
                      [caller EXCEPT !.pc = "main", !.th = 0,
                                     !.running_acquire = TRUE,
                                     !.cancelled = FALSE,
                                     !.acquire_count = 0,
                                     !.acquire_number = n],
                      "acquire"))

\* a _run_acquire scheduled with root.after (line 2796) runs
GuiRunAcquire ==
    /\ CallerFree
    /\ caller.after > 0
    /\ RunAcquire([caller EXCEPT !.pc = "main", !.th = 0, !.after = @ - 1])

\* lines 2797-2799: finish_all_tasks has returned to _run_acquire, which
\* sets the running mode to 'None'
GuiFinished ==
    /\ caller.pc = "get_nowait"
    /\ LoopEnds(unfinished_tasks)
    /\ caller' = CallSetRunningMode(
                     [caller EXCEPT !.pc = "main", !.th = 0], "None")
    /\ UNCHANGED TaskVars
    /\ UNCHANGED unfinished_tasks

\* _cancel, lines 2846-2849: the running mode is set to 'None', and
\* nothing else is done
GuiCancel ==
    /\ CallerFree
    /\ caller.running_acquire
    /\ caller' = CallSetRunningMode(
                     [caller EXCEPT !.pc = "main", !.th = 0,
                                    !.cancelled = TRUE], "None")
    /\ UNCHANGED TaskVars
    /\ UNCHANGED unfinished_tasks

\* the GUI scenario: the mandatory call of the GUI, then 'Run acquire' with
\* an acquire number up to MaxAcquireNumber, cancelled or not at any time
\* the GUI is free, and started again, up to MaxCancelTasks tasks in all
NextCancel ==
    \/ /\ ntasks = 0 /\ apply_settings(MaxCancelTasks, "Full")
       /\ UNCHANGED caller
    \/ \E n \in 1..MaxAcquireNumber : GuiAcquire(n)
    \/ GuiRunAcquire
    \/ GuiCancel
    \/ ~LoopEnds(unfinished_tasks) /\ FinishGetNowait
    \/ FinishGetResult
    \/ GuiFinished
    \/ TaskStep

\* the GUI scenario with the tasks' threads scheduled fairly
FairCancel == Init /\ [][NextCancel]_vars /\ WF_vars(TaskStep)

MaxCardTasks == 4

\* the frames scenario: the mandatory call first, then up to MaxCardTasks
\* calls in all: acquisitions, and calls that double the volumes (rejected
\* by the memory check with four buffers of each kind, accepted with one),
\* change the preframes or lower the buffer maxima
CardCalls == {"TwoVolumes", "FewBuffers", "Preframes"}

NextCard ==
    \/ /\ ntasks = 0 /\ apply_settings(MaxCardTasks, "Full")
       /\ UNCHANGED caller
    \/ /\ ntasks > 0 /\ \E c \in CardCalls : apply_settings(MaxCardTasks, c)
       /\ UNCHANGED caller
    \/ /\ ntasks > 0 /\ \E filename \in BOOLEAN :
                            acquire(MaxCardTasks, TRUE, filename)
       /\ UNCHANGED caller
    \/ TaskStep

SpecCard == Init /\ [][NextCard]_vars

\* task t is capturing: it has its data buffer, and the camera
Captures(t) == IsAcquire(t) /\ pc[t] \in {"start_record", "play", "join"}

\* C31: whenever an acquire task captures, the number of camera-trigger
\* blocks of the voltages last written to the card equals camera.num_images
\* and the number of frames of the data buffer of the task.
C31_FramesAgree ==
    \A t \in Tasks :
        Captures(t) =>
            /\ self.ao_blocks = self.camera_num_images
            /\ self.camera_num_images = loc[t].data_shape[1]


(***************************************************************************)
(* The order of the acquisitions in the preview unit and the display        *)
(***************************************************************************)
\* acquire task t has still to get custody of r: it has not reached the
\* line of r or waits in it (an acquisition that is not displayed never
\* asks for the display)
Pending(t, r) ==
    /\ Launched(t) /\ IsAcquire(t)
    /\ \/ pc[t] \in {"wait_camera", "get_data_buffer", "start_record",
                     "play", "join", "wait_preview"}
       \/ r = "display" /\ pc[t] \in {"get_preview_buffer", "preview",
                                      "wait_display"}
    /\ r = "display" => call[t].display

\* C32: acquire tasks pass through the preview unit and the display in the
\* order of their launch, which is the order in which they held the
\* camera: a later acquire task has custody of neither, and has had
\* custody of neither, while an earlier one has still to get it.
C32_PipelineInOrder ==
    \A t1, t2 \in Tasks : \A r \in {"datapreview", "display"} :
        (t1 < t2 /\ Launched(t2) /\ IsAcquire(t2)
            /\ (InLog(t2, r) \/ r \in held[t2]))
        => ~Pending(t1, r)

\* two acquisitions, launched one after the other, were both displayed
C32_Witness ==
    \E t1, t2 \in Tasks :
        /\ t1 < t2 /\ IsAcquire(t1) /\ IsAcquire(t2)
        /\ InLog(t1, "show") /\ InLog(t2, "show")


(***************************************************************************)
(* The counters of the buffers, lines 480-504                               *)
(***************************************************************************)
\* the acquire tasks that obtained a buffer (the += 1 is done) and have not
\* released it (the -= 1 is not done)
Outstanding(obtained, released) ==
    {t \in Tasks : InLog(t, obtained) /\ ~InLog(t, released)}

\* C33: num_active_data_buffers and num_active_preview_buffers always equal
\* the number of buffers obtained by acquire tasks and not yet released.
C33_CountersExact ==
    /\ num_active_data_buffers =
          Cardinality(Outstanding("get_data_buffer", "release_data_buffer"))
    /\ num_active_preview_buffers =
          Cardinality(Outstanding("get_preview_buffer",
                                  "release_preview_buffer"))


(***************************************************************************)
(* What a settings task starts without blocking, and what waits for it      *)
(***************************************************************************)
\* the command that waits for what the command c started
FinishOf(c) ==
    CASE c = "XY_stage.move_mm" -> "XY_stage._finish_moving"
      [] c = "XY_stage.get_position_mm" ->
             "update_XY_stage_position_thread.get_result"
      [] c = "zoom_lens.set_focal_length_mm" ->
             "set_zoom_lens_f_mm_thread.get_result"
      [] c = "filter_wheel.move" -> "filter_wheel._finish_moving"
      [] c = "focus_piezo.move_um" -> "focus_piezo._finish_moving"
      [] c = "ao._write_voltages" -> "write_voltages_thread.get_result"
      [] OTHER -> c

\* what settings task t started and has not waited for (every other
\* command of hw blocks until it is done)
InProgress(t) == {c \in hw[t] : FinishOf(c) \notin hw[t]}

\* C34: a settings task that completes successfully gives up the camera
\* only after every operation it started has finished, so that no acquire
\* task captures while a move or a voltage write of that call is in
\* progress.
C34_ReleaseAfterHardware ==
    /\ \A t \in Tasks :
          (IsSettings(t) /\ InProgress(t) # {}) =>
              \/ "camera" \in held[t]
              \/ Faulted(t)
    /\ \A t, a \in Tasks :
          (Captures(a) /\ IsSettings(t) /\ outcome[t] = "ok") =>
              InProgress(t) = {}

\* an acquire task captures after a settings task that started an XY
\* position read and a voltage write, and waited for both, has completed
C34_Witness ==
    \E t, a \in Tasks :
        /\ Captures(a) /\ IsSettings(t) /\ outcome[t] = "ok" /\ t < a
        /\ {"XY_stage.get_position_mm", "ao._write_voltages",
            "update_XY_stage_position_thread.get_result",
            "write_voltages_thread.get_result"} \subseteq hw[t]


(***************************************************************************)
(* Microscope.close, lines 847-862                                          *)
(***************************************************************************)
\* the bound on the tasks of the scenario of close
MaxCloseTasks == 3

\* line 849: self.finish_all_tasks() comes first
CloseFirst_Devices == "devices"

CloseFirst == "get_nowait"

\* lines 847-849: the call
Close ==
    /\ CallerFree /\ ~caller.closed
    /\ caller' = [caller EXCEPT !.pc = CloseFirst, !.collected = <<>>,
                                !.th = 0, !.closing = TRUE]
    /\ UNCHANGED TaskVars
    /\ UNCHANGED unfinished_tasks

\* line 846 in close: finish_all_tasks returns to line 850
CloseFinished ==
    /\ caller.pc = "get_nowait" /\ caller.closing
    /\ LoopEnds(unfinished_tasks)
    /\ caller' = [caller EXCEPT !.pc = "devices"]
    /\ UNCHANGED TaskVars
    /\ UNCHANGED unfinished_tasks

\* lines 850-862: the devices are closed, the ao card first
CloseDevices ==
    /\ caller.pc = "devices"
    /\ caller' = [caller EXCEPT !.pc = "returned", !.closing = FALSE,
                                !.closed = TRUE]
    /\ UNCHANGED TaskVars
    /\ UNCHANGED unfinished_tasks

\* the scenario of close: up to MaxCloseTasks calls, legal or not, then
\* close() at any time, and again when a fault was re-raised to its caller
NextClose ==
    \/ /\ CallerFree /\ ~caller.closed
       /\ \E c \in FinishCalls : apply_settings(MaxCloseTasks, c)
       /\ caller' = BackToMain
    \/ /\ CallerFree /\ ~caller.closed
       /\ \E filename \in BOOLEAN : acquire(MaxCloseTasks, TRUE, filename)
       /\ caller' = BackToMain
    \/ Close
    \/ ~LoopEnds(unfinished_tasks) /\ FinishGetNowait
    \/ FinishGetResult
    \/ CloseFinished
    \/ CloseDevices
    \/ TaskStep

SpecClose == Init /\ [][NextClose]_vars

\* C35: close() closes no device until every task launched before it has
\* finished: when the devices are being closed or are closed, every
\* launched task has ended, no task has custody of the camera, the preview
\* unit or the display or waits in line for one, also when a task faulted.
C35_CloseAfterTasks ==
    (caller.pc = "devices" \/ caller.closed) =>
        /\ \A t \in Tasks : Launched(t) => pc[t] = "done" /\ held[t] = {}
        /\ \A r \in Resources : queue[r] = <<>>

\* the devices are closed after an acquisition was made and after an
\* earlier close() had ended by re-raising the fault of a task
C35_Witness ==
    /\ caller.closed
    /\ caller.raised # {}
    /\ \E t \in Tasks : IsAcquire(t) /\ InLog(t, "recorded")


(***************************************************************************)
(* The focus piezo and the autofocus, lines 625-659                         *)
(***************************************************************************)
\* the bound on the tasks of the focus scenario
MaxFocusTasks == 4

\* the focus scenario: the mandatory call first, then up to MaxFocusTasks
\* calls in all: the autofocus switched on (a sample detected or not) and
\* off, moves of the focus piezo and requests of (0, 'relative'), and
\* acquisitions
FocusCalls == {"AutofocusOn", "AutofocusOff", "Move", "NoMove"}

NextFocus ==
    \/ /\ ntasks = 0 /\ apply_settings(MaxFocusTasks, "FullFewBuffers")
       /\ UNCHANGED caller
    \/ /\ ntasks > 0 /\ \E c \in FocusCalls : apply_settings(MaxFocusTasks, c)
       /\ UNCHANGED caller
    \/ /\ ntasks > 0 /\ \E filename \in BOOLEAN :
                            acquire(MaxFocusTasks, TRUE, filename)
       /\ UNCHANGED caller
    \/ TaskStep

SpecFocus == Init /\ [][NextFocus]_vars

\* settings task t asks for a focus piezo position other than (0, 'relative')
AsksMove(t) ==
    /\ Given(Args(call[t].c), "focus_piezo_z_um")
    /\ Args(call[t].c).focus_piezo_z_um # <<0, "relative">>

\* C36: while autofocus_enabled is True, apply_settings sends no move
\* command to the focus piezo: a settings task whose hardware commands end
\* with autofocus_enabled True has sent no focus_piezo.move_um, and has
\* failed if it asked for anything but (0, 'relative').
C36_NoMoveWithAutofocus ==
    [][\A t \in Tasks :
          (pc[t] = "hardware" /\ pc'[t] # "hardware"
              /\ self'.autofocus_enabled) =>
             /\ "focus_piezo.move_um" \notin hw'[t]
             /\ AsksMove(t) => (pc'[t] = "done" /\ outcome'[t] = "fault")
             /\ ~AsksMove(t) => pc'[t] = "finalize"]_vars

\* with the autofocus enabled, a task that asked for a move has failed
\* without a move command and one that asked for (0, 'relative') completed
C36_Witness ==
    /\ self.autofocus_enabled
    /\ \E t, u \in Tasks :
          /\ IsSettings(t) /\ call[t].c = "Move" /\ Faulted(t)
          /\ "focus_piezo.move_um" \notin hw[t]
          /\ IsSettings(u) /\ call[u].c = "NoMove" /\ outcome[u] = "ok"
          /\ \E v \in Tasks : v < t /\ v < u /\ call[v].c = "AutofocusOn"
                                 /\ outcome[v] = "ok"


(***************************************************************************)
(* Projection mode switched on and off, lines 544-578                       *)
(***************************************************************************)
\* the bound on the tasks of the projection scenario
MaxProjectionTasks == 4

\* the projection scenario: the mandatory call with a voxel aspect ratio of
\* 4 first, then up to MaxProjectionTasks calls in all: projection mode
\* switched on and off with no other argument, and acquisitions
ProjectionCalls == {"ProjectionOn", "ProjectionOff"}

NextProjection ==
    \/ /\ ntasks = 0 /\ apply_settings(MaxProjectionTasks, "FullCoarse")
       /\ UNCHANGED caller
    \/ /\ ntasks > 0
       /\ \E c \in ProjectionCalls : apply_settings(MaxProjectionTasks, c)
       /\ UNCHANGED caller
    \/ /\ ntasks > 0 /\ \E filename \in BOOLEAN :
                            acquire(MaxProjectionTasks, TRUE, filename)
       /\ UNCHANGED caller
    \/ TaskStep

SpecProjection == Init /\ [][NextProjection]_vars

ScanOf(s) ==
    <<s.voxel_aspect_ratio, s.scan_step_size_px, s.slices_per_volume>>

\* C37: apply_settings(projection_mode=True) followed by
\* apply_settings(projection_mode=False) restores voxel_aspect_ratio,
\* scan_step_size_px and slices_per_volume: when the task that switches
\* projection mode off derives the geometry right after a completed task
\* that switched it on, the three have the values they had when that task
\* got the camera.
C37_ProjectionRoundTrip ==
    [][\A u \in Tasks :
          (/\ pc[u] = "wait_camera" /\ pc'[u] # "wait_camera"
           /\ IsSettings(u) /\ call[u].c = "ProjectionOff"
           /\ settings_owner # 0
           /\ call[settings_owner].c = "ProjectionOn"
           /\ outcome[settings_owner] = "ok"
           /\ ~before.projection_mode)
          => ScanOf(self') = ScanOf(before)]_vars

\* ---- the running mode of the GUI ----

\* scheduled callbacks of the preview loops kept in the scenario
MaxAfter == 4

\* the modes of mode_to_variable, gui lines 2833-2837
Modes == {"grid_preview", "tile_preview", "live_mode", "scout_mode", "acquire"}

\* the Checkbutton of a mode toggles its variable before its command runs
\* (gui lines 1730-1735, 1859-1864, 2651-2656, 2676-2681, 2803-2808)
Toggle(c, mode) ==
    [c EXCEPT
       !.running_grid_preview = IF mode = "grid_preview" THEN ~@ ELSE @,
       !.running_tile_preview = IF mode = "tile_preview" THEN ~@ ELSE @,
       !.running_live_mode = IF mode = "live_mode" THEN ~@ ELSE @,
       !.running_scout_mode = IF mode = "scout_mode" THEN ~@ ELSE @,
       !.running_acquire = IF mode = "acquire" THEN ~@ ELSE @]

\* the variable of a mode
ModeIsSet(c, mode) ==
    \/ mode = "grid_preview" /\ c.running_grid_preview
    \/ mode = "tile_preview" /\ c.running_tile_preview
    \/ mode = "live_mode" /\ c.running_live_mode
    \/ mode = "scout_mode" /\ c.running_scout_mode
    \/ mode = "acquire" /\ c.running_acquire

\* the button of a mode is pressed, which the grab of the cancel popup
\* forbids: the variable toggles and the command sets the running mode
\* (lines 1620, 1787, 2672, 2737; lines 2639-2642 for live mode, which
\* sets 'None' when toggled off); a preview loop leaves a callback
\* scheduled (lines 1723 and 1851)
PressMode(mode) ==
    /\ ~caller.popup
    /\ mode \in {"grid_preview", "tile_preview"} => caller.after < MaxAfter
    /\ LET c == Toggle(caller, mode)
           m == IF mode = "live_mode" /\ ~c.running_live_mode
                THEN "None" ELSE mode
           d == CallSetRunningMode(c, m)
       IN  caller' = IF mode \in {"grid_preview", "tile_preview"}
                     THEN [d EXCEPT !.after = @ + 1]
                     ELSE d
    /\ UNCHANGED TaskVars
    /\ UNCHANGED unfinished_tasks

\* _cancel, lines 2846-2849, the button of the cancel popup; 'Run acquire'
\* at its end makes the same call with the popup up (lines 2797-2798)
CancelMode ==
    /\ caller.popup
    /\ caller' = CallSetRunningMode(caller, "None")
    /\ UNCHANGED TaskVars
    /\ UNCHANGED unfinished_tasks

\* the scheduled callback of a preview loop runs for the last time, its
\* mode cancelled or its list at its end (lines 1719-1725, 1848-1853)
LoopFinished ==
    /\ caller.after > 0
    /\ caller' = CallSetRunningMode([caller EXCEPT !.after = @ - 1], "None")
    /\ UNCHANGED TaskVars
    /\ UNCHANGED unfinished_tasks

\* the GUI starts with scout mode on (gui line 120)
InitModes ==
    /\ InitMicroscope
    /\ caller = [CallerAtStart EXCEPT !.running_scout_mode = TRUE]

NextModes ==
    \/ \E mode \in Modes : PressMode(mode)
    \/ CancelMode
    \/ LoopFinished

\* the buttons of the running modes, pressed, cancelled and finished in
\* any order
SpecModes == InitModes /\ [][NextModes]_vars

\* the variables of the modes other than scout mode
RunningFlags == Modes \ {"scout_mode"}

\* C38: at most one of the flags of grid preview, tile preview, live mode
\* and acquire is set at any time; a call of _set_running_mode with a mode
\* other than 'None' leaves every flag but that mode's cleared, and a call
\* with 'None' leaves the four flags cleared and scout mode as it was found
\* by the last call with a mode other than 'None'.
C38_OneRunningMode ==
    /\ [](Cardinality({m \in RunningFlags : ModeIsSet(caller, m)}) <= 1)
    /\ [][caller' # caller =>
            /\ caller'.last_call # "None" =>
                  \A m \in Modes \ {caller'.last_call} :
                      ~ModeIsSet(caller', m)
            /\ caller'.last_call = "None" =>
                  /\ \A m \in RunningFlags : ~ModeIsSet(caller', m)
                  /\ caller'.running_scout_mode = caller.entry_status]_vars

\* live mode was entered with scout mode on, a tile preview was then
\* started, which cleared live mode, and its cancel has put scout mode on
\* again
C38_Witness ==
    /\ caller.last_call = "None"
    /\ caller.running_mode = "tile_preview"
    /\ ~caller.popup
    /\ caller.entry_status
    /\ caller.running_scout_mode
    /\ caller.after > 0

\* C39: at most one chain of _run_acquire callbacks is active: there are
\* never two scheduled _run_acquire callbacks that both pass the check
\* for cancel of line 2743, so that a callback scheduled by a cancelled
\* run launches no acquisition alongside a new run.
C39_OneAcquireChain == ~(caller.after >= 2 /\ ~CheckForCancel(caller))

\* ---- get_multiwell_plate_positions ----

\* largest tile_rows and tile_cols given to get_multiwell_plate_positions
MaxTiles == 3

\* line 1267: chr(ord('A') + i) for the 16 rows a plate may have
RowLabels == <<"A", "B", "C", "D", "E", "F", "G", "H", "I", "J", "K", "L", "M", "N", "O", "P">>

\* the arguments of get_multiwell_plate_positions, lengths in micrometres
\* (the spacings even, so that the halves of lines 1290-1291 and 1301-1302
\* are whole), start and stop as their letter and their number; the plate
\* and the corners of A1 are those of the multiwell template (lines 57-70
\* of ht_sols_microscope_acquisition_template_multiwell_plates.py)
PlateInputs ==
    {[total_rows |-> 16, total_cols |-> 24, well_spacing_mm |-> 4500,
      start |-> st, stop |-> sp, tile_rows |-> tr, tile_cols |-> tc,
      tile_spacing_X_mm |-> sx, tile_spacing_Y_mm |-> 50,
      A1_ul_X_mm |-> 50228, A1_ul_Y_mm |-> -34862,
      A1_lr_X_mm |-> 47328, A1_lr_Y_mm |-> -31892] :
        st \in {<<"A", 1>>, <<"B", 2>>}, sp \in {<<"A", 1>>, <<"B", 2>>},
        tr \in 0..MaxTiles, tc \in 0..MaxTiles, sx \in {200, 300}}

\* row_labels.index(char), from 0 (lines 1279-1280)
RowIndex(char) == (CHOOSE i \in 1..Len(RowLabels) : RowLabels[i] = char) - 1

\* lines 1266-1289: the assertions on the arguments
PlateArgumentsLegal(a) ==
    /\ 1 <= a.total_rows /\ a.total_rows <= 16
    /\ 1 <= a.total_cols /\ a.total_cols <= 24
    /\ \E i \in 1..a.total_rows : RowLabels[i] = a.start[1]
    /\ \E i \in 1..a.total_rows : RowLabels[i] = a.stop[1]
    /\ a.start[2] \in 1..a.total_cols
    /\ a.stop[2] \in 1..a.total_cols
    /\ RowIndex(a.start[1]) <= RowIndex(a.stop[1]) + 1
    /\ a.start[2] - 1 <= a.stop[2]
    /\ 1 <= a.tile_rows /\ a.tile_rows <= 100
    /\ 1 <= a.tile_cols /\ a.tile_cols <= 100

\* lines 1290-1291: the offsets that centre the tiles in the well
tile_offset_X_mm(a) == ((a.tile_rows - 1) * a.tile_spacing_X_mm) \div 2

tile_offset_Y_mm(a) == ((a.tile_cols - 1) * a.tile_spacing_Y_mm) \div 2

\* lines 1301-1302: the centre of A1
A1_X_mm(a) == a.A1_ul_X_mm - (a.A1_ul_X_mm - a.A1_lr_X_mm) \div 2

A1_Y_mm(a) == a.A1_ul_Y_mm - (a.A1_ul_Y_mm - a.A1_lr_Y_mm) \div 2

\* lines 1304-1325: the loops over the columns, the rows (reversed in an
\* odd column), the tile columns and the tile rows (reversed in an odd tile
\* column); entry i of the result is the i-th position appended, with the
\* row, column, tr and tc of its position string
multiwell_plate_positions(a) ==
    LET row_start == RowIndex(a.start[1])
        row_stop == RowIndex(a.stop[1]) + 1
        col_start == a.start[2] - 1
        col_stop == a.stop[2]
        nrows == row_stop - row_start
        ncols == col_stop - col_start
        per_well == a.tile_cols * a.tile_rows
    IN  [i \in 1..(ncols * nrows * per_well) |->
            LET c == col_start + (i - 1) \div (nrows * per_well)
                ri == ((i - 1) \div per_well) % nrows
                r == IF c % 2 = 1 THEN row_stop - 1 - ri
                     ELSE row_start + ri
                tc == ((i - 1) \div a.tile_rows) % a.tile_cols
                ti == (i - 1) % a.tile_rows
                tr == IF tc % 2 = 1 THEN a.tile_rows - 1 - ti ELSE ti
                well_X_mm == A1_X_mm(a) - c * a.well_spacing_mm
                well_Y_mm == A1_Y_mm(a) + r * a.well_spacing_mm
                tile_X_mm == tile_offset_X_mm(a) - tc * a.tile_spacing_X_mm
                tile_Y_mm == - tile_offset_Y_mm(a) + tr * a.tile_spacing_Y_mm
            IN  [row |-> RowLabels[r + 1], col |-> c + 1, tr |-> tr,
                 tc |-> tc, X_mm |-> well_X_mm + tile_X_mm,
                 Y_mm |-> well_Y_mm + tile_Y_mm]]

\* get_multiwell_plate_positions, lines 1243-1325
get_multiwell_plate_positions(a) ==
    IF PlateArgumentsLegal(a)
    THEN [raised |-> "none", v |-> multiwell_plate_positions(a)]
    ELSE [raised |-> "AssertionError", v |-> <<>>]

InitPlate ==
    /\ ntasks = 0
    /\ call = [t \in Tasks |-> NoCall]
    /\ pc = [t \in Tasks |-> "idle"]
    /\ queue = [r \in Resources |-> <<>>]
    /\ held = [t \in Tasks |-> {}]
    /\ self \in PlateInputs
    /\ settings_applied = FALSE
    /\ num_active_data_buffers = 0
    /\ num_active_preview_buffers = 0
    /\ loc = [t \in Tasks |-> NoLocals]
    /\ pts = [t \in Tasks |-> "none"]
    /\ hw = [t \in Tasks |-> {}]
    /\ outcome = [t \in Tasks |-> "none"]
    /\ before = InitAttributes
    /\ settings_owner = 0
    /\ log = [t \in Tasks |-> <<>>]
    /\ unfinished_tasks = <<>>
    /\ caller = CallerAtStart

\* the caller calls get_multiwell_plate_positions with its arguments
CallGetPositions(t) ==
    /\ pc[t] = "idle"
    /\ \E r \in {get_multiwell_plate_positions(self)} :
          IF r.raised = "none"
          THEN /\ self' = Update(self, [positions |-> r.v])
               /\ outcome' = [outcome EXCEPT ![t] = "ok"]
               /\ log' = Logged(t, <<"get_multiwell_plate_positions">>)
          ELSE /\ outcome' = [outcome EXCEPT ![t] = "fault"]
               /\ log' = Logged(t, <<r.raised>>)
               /\ UNCHANGED self
    /\ pc' = [pc EXCEPT ![t] = "done"]
    /\ UNCHANGED <<ntasks, call, queue, held, settings_applied,
                   num_active_data_buffers, num_active_preview_buffers, loc,
                   pts, hw, before, settings_owner>>

NextPlate ==
    /\ UNCHANGED <<unfinished_tasks, caller>>
    /\ \E t \in {1} : CallGetPositions(t)

SpecPlate == InitPlate /\ [][NextPlate]_vars

\* the sum of a sequence of numbers
SumOf(s) ==
    LET f[i \in 0..Len(s)] == IF i = 0 THEN 0 ELSE f[i - 1] + s[i]
    IN  f[Len(s)]

\* the tiles returned for the well of row label row and column number col
TilesOf(ps, row, col) ==
    SelectSeq(ps, LAMBDA p : p.row = row /\ p.col = col)

\* C40: for every well of the result the tiles are centred on the well
\* centre in X and in Y (their offsets from the centre sum to zero on each
\* axis) and there are tile_rows*tile_cols of them, whatever tile_rows and
\* tile_cols.
C40_TilesCentred ==
    "positions" \in DOMAIN self =>
       \A i \in 1..Len(self.positions) :
          LET p == self.positions[i]
              tiles == TilesOf(self.positions, p.row, p.col)
              X == A1_X_mm(self) - (p.col - 1) * self.well_spacing_mm
              Y == A1_Y_mm(self) + RowIndex(p.row) * self.well_spacing_mm
          IN  /\ Len(tiles) = self.tile_rows * self.tile_cols
              /\ SumOf([k \in 1..Len(tiles) |-> tiles[k].X_mm - X]) = 0
              /\ SumOf([k \in 1..Len(tiles) |-> tiles[k].Y_mm - Y]) = 0

====
